---------------------------- MODULE Spec2Model ----------------------------
(***************************************************************************)
(* Hotel search, pricing, availability and booking workflow of the         *)
(* monobook-ing API (app/agents/tools.py, app/agents/guardrails.py,        *)
(* app/crud/booking.py).                                                   *)
(*                                                                         *)
(* Dates are day ordinals (integers); a date STRING handed to a tool is a  *)
(* record [k, d]: k = "iso" is the ISO text of day d, k = "txt" is text    *)
(* that date.fromisoformat rejects, k = "empty" is "" and k = "none" is    *)
(* Python's None.  Money is kept in whole cents.  An optional number is a  *)
(* set with at most one element ({} is None).                              *)
(***************************************************************************)
EXTENDS Integers, Sequences, FiniteSets, TLC

VARIABLES
    today,        \* date.today()
    properties,   \* relation properties (joined with accounts.name)
    rooms,        \* relation rooms
    tiers,        \* relation room_guest_tiers, per room in row order
    overrides,    \* relation room_date_pricing, per room in row order
    bookings,     \* relation bookings, in insertion order (id = index)
    guests,       \* relation guests, in insertion order (id = index)
    sessions,     \* relation chat_sessions: session id -> linked guest id
    audit,        \* relation audit_log, in insertion order
    pc,           \* position of each tool_create_booking invocation
    args,         \* its arguments
    loc,          \* its local variables
    result,       \* what it returned (or the fault it raised)
    calls,        \* number of tool_create_booking invocations started
    req,          \* the tool call a client is about to make
    out,          \* the result of that call, once made
    now,          \* time.time(), in seconds
    _rate_limit_store  \* routes/chat.py: client IP -> timestamps of its messages

store == <<properties, rooms, tiers, overrides, bookings, guests, sessions, audit>>
procs == <<pc, args, loc, result, calls>>
io    == <<req, out>>
chat  == <<now, _rate_limit_store>>
vars  == <<today, properties, rooms, tiers, overrides, bookings, guests,
           sessions, audit, pc, args, loc, result, calls, req, out,
           now, _rate_limit_store>>

-----------------------------------------------------------------------------
(* Bounds of the model *)

MaxCalls == 2
StayDays == 2
MaxToday == 3
MaxRows == 2
MaxCents == 30
Today0 == 2

(* Program constants *)

MAX_STAY_NIGHTS == 30
MAX_ADVANCE_DAYS == 365
MAX_GUESTS == 20
TAX_RATE_PCT == 12
SERVICE_FEE_RATE_PCT == 4

None == "None"

-----------------------------------------------------------------------------
(* Date strings *)

Iso(d) == [k |-> "iso", d |-> d]
BadDate == [k |-> "txt", d |-> 0]
EmptyDate == [k |-> "empty", d |-> 0]
NoDate == [k |-> "none", d |-> 0]

\* Python truthiness of an optional string
Truthy(s) == s.k \in {"iso", "txt"}

\* date.fromisoformat succeeds
Parses(s) == s.k = "iso"

\* date.fromisoformat(s), where it succeeds
FromIso(s) == s.d

-----------------------------------------------------------------------------
(* guardrails.py *)

\* the advance-booking rule checked before the stay-length rule
validate_dates_advance_first(check_in, check_out, td) ==
    IF ~Parses(check_in) \/ ~Parses(check_out)
    THEN "Invalid date format. Use YYYY-MM-DD."
    ELSE LET ci == FromIso(check_in)
             co == FromIso(check_out)
         IN  IF ci < td THEN "Check-in date cannot be in the past."
             ELSE IF co <= ci THEN "Check-out must be after check-in."
             ELSE IF ci > td + MAX_ADVANCE_DAYS
                  THEN "Cannot book more than 1 year in advance."
             ELSE IF co - ci > MAX_STAY_NIGHTS THEN "Maximum stay is 30 nights."
             ELSE None

validate_dates(check_in, check_out, td) ==
    IF ~Parses(check_in) \/ ~Parses(check_out)
    THEN "Invalid date format. Use YYYY-MM-DD."
    ELSE LET ci == FromIso(check_in)
             co == FromIso(check_out)
         IN  IF ci < td THEN "Check-in date cannot be in the past."
             ELSE IF co <= ci THEN "Check-out must be after check-in."
             ELSE IF co - ci > MAX_STAY_NIGHTS THEN "Maximum stay is 30 nights."
             ELSE IF ci > td + MAX_ADVANCE_DAYS
                  THEN "Cannot book more than 1 year in advance."
             ELSE None

validate_guests(count) ==
    IF count < 1 THEN "Guest count must be at least 1."
    ELSE IF count > MAX_GUESTS THEN "Maximum 20 guests per booking."
    ELSE None

-----------------------------------------------------------------------------
(* Arithmetic helpers *)

SetMin(S) == CHOOSE x \in S : \A y \in S : x <= y
SetMax(S) == CHOOSE x \in S : \A y \in S : x >= y

\* round(num / den) to the nearest integer, ties to even (Python's round)
RoundRatio(num, den) ==
    LET q == num \div den
        r == num % den
    IN  IF 2 * r < den THEN q
        ELSE IF 2 * r > den THEN q + 1
        ELSE IF q % 2 = 0 THEN q ELSE q + 1

\* round(amount * pct / 100, 2) on an amount in cents
RoundPct(cents, pct) == RoundRatio(cents * pct, 100)

-----------------------------------------------------------------------------
(* Pricing engine: tools.py _nightly_rate_for_guests, _calculate_room_total_price *)

\* a rate that takes the last tier containing the guest count
_nightly_rate_last_match(room, g, guest_tiers) ==
    LET hits == {i \in 1..Len(guest_tiers) :
                    \E n \in g : /\ guest_tiers[i].min_guests <= n
                                 /\ n <= guest_tiers[i].max_guests}
    IN  IF g = {} \/ hits = {} THEN room.price_per_night
        ELSE guest_tiers[SetMax(hits)].price_per_night

\* a rate that is 0, not the base price, when no tier contains the guest count
_nightly_rate_no_fallback(room, g, guest_tiers) ==
    LET hits == {i \in 1..Len(guest_tiers) :
                    \E n \in g : /\ guest_tiers[i].min_guests <= n
                                 /\ n <= guest_tiers[i].max_guests}
    IN  IF g = {} THEN room.price_per_night
        ELSE IF hits = {} THEN 0
        ELSE guest_tiers[SetMin(hits)].price_per_night

_nightly_rate_for_guests(room, g, guest_tiers) ==
    LET base_rate == room.price_per_night
        hits == {i \in 1..Len(guest_tiers) :
                    \E n \in g : /\ guest_tiers[i].min_guests <= n
                                 /\ n <= guest_tiers[i].max_guests}
    IN  IF g = {} THEN base_rate
        ELSE IF hits = {} THEN base_rate
        ELSE guest_tiers[SetMin(hits)].price_per_night

\* dict built from a row list: the last row of a key wins; .get(key, default)
OverrideGet(rows, day, default) ==
    LET hits == {i \in 1..Len(rows) : rows[i].date = day}
    IN  IF hits = {} THEN default ELSE rows[SetMax(hits)].price

RECURSIVE SumNightsInclusive(_, _, _, _)
\* a loop that also charges the night of check_out
SumNightsInclusive(rows, first, nights, rate) ==
    IF nights < 0 THEN 0
    ELSE SumNightsInclusive(rows, first, nights - 1, rate)
         + OverrideGet(rows, first + nights, rate)

RECURSIVE SumNights(_, _, _, _)
\* for i in range(nights): subtotal += override_map.get(check_in + i, rate)
SumNights(rows, first, nights, rate) ==
    IF nights <= 0 THEN 0
    ELSE SumNights(rows, first, nights - 1, rate)
         + OverrideGet(rows, first + (nights - 1), rate)

\* a total without the service fee
StayTotalNoFee(subtotal) == subtotal + RoundPct(subtotal, TAX_RATE_PCT)

StayTotal(subtotal) ==
    subtotal + RoundPct(subtotal, TAX_RATE_PCT) + RoundPct(subtotal, SERVICE_FEE_RATE_PCT)

_calculate_room_total_price(room, g, check_in, check_out, guest_tiers, date_overrides) ==
    LET nights == FromIso(check_out) - FromIso(check_in)
        nightly_rate == _nightly_rate_for_guests(room, g, guest_tiers)
        subtotal == SumNights(date_overrides, FromIso(check_in), nights, nightly_rate)
    IN  StayTotal(subtotal)

-----------------------------------------------------------------------------
(* Availability: the three overlap queries of tools.py *)

\* a conflict query that only sees bookings lying inside the requested stay
ConflictRowsContained(bks, room_id, ci, co) ==
    {i \in 1..Len(bks) : /\ bks[i].room_id = room_id
                         /\ bks[i].status # "cancelled"
                         /\ bks[i].check_in >= ci
                         /\ bks[i].check_out <= co}

\* a conflict query on closed intervals: a stay touching a booking conflicts
ConflictRowsClosed(bks, room_id, ci, co) ==
    {i \in 1..Len(bks) : /\ bks[i].room_id = room_id
                         /\ bks[i].status # "cancelled"
                         /\ bks[i].check_in <= co
                         /\ bks[i].check_out >= ci}

\* bookings .eq(room_id) .neq(status, cancelled) .lt(check_in, co) .gt(check_out, ci)
ConflictRows(bks, room_id, ci, co) ==
    {i \in 1..Len(bks) : /\ bks[i].room_id = room_id
                         /\ bks[i].status # "cancelled"
                         /\ bks[i].check_in < co
                         /\ bks[i].check_out > ci}

\* tools.py check_availability: [available, error, conflicts, logged]
check_availability(bks, room_id, check_in, check_out, td) ==
    LET error == validate_dates(check_in, check_out, td)
        conflicts == ConflictRows(bks, room_id, FromIso(check_in), FromIso(check_out))
    IN  IF error # None
        THEN [available |-> FALSE, error |-> error, conflicts |-> 0, logged |-> FALSE]
        ELSE [available |-> conflicts = {}, error |-> None,
              conflicts |-> Cardinality(conflicts), logged |-> TRUE]

\* a batched conflict query that forgets the status filter
_filter_available_rooms_any_status(bks, room_ids, check_in, check_out) ==
    room_ids \ {bks[i].room_id : i \in
                    {j \in 1..Len(bks) : /\ bks[j].room_id \in room_ids
                                         /\ bks[j].check_in < FromIso(check_out)
                                         /\ bks[j].check_out > FromIso(check_in)}}

\* a batched filter that drops the whole batch when one of its rooms is taken
_filter_available_rooms_whole_batch(bks, room_ids, check_in, check_out) ==
    IF \E j \in 1..Len(bks) : /\ bks[j].room_id \in room_ids
                              /\ bks[j].status # "cancelled"
                              /\ bks[j].check_in < FromIso(check_out)
                              /\ bks[j].check_out > FromIso(check_in)
    THEN {}
    ELSE room_ids

\* tools.py _filter_available_rooms: one batched query over the room ids
_filter_available_rooms(bks, room_ids, check_in, check_out) ==
    LET conflict_room_ids ==
            {bks[i].room_id : i \in
                {j \in 1..Len(bks) : /\ bks[j].room_id \in room_ids
                                     /\ bks[j].status # "cancelled"
                                     /\ bks[j].check_in < FromIso(check_out)
                                     /\ bks[j].check_out > FromIso(check_in)}}
    IN  IF room_ids = {} THEN {} ELSE room_ids \ conflict_room_ids

-----------------------------------------------------------------------------
(* tools.py calculate_price.  single_raises: whether .single() raises on a   *)
(* missing row (the client library's choice) instead of returning no data.   *)

PriceFault == [kind |-> "fault", error |-> None, nights |-> 0, nightly_rate |-> 0,
               subtotal |-> 0, total |-> 0]

calculate_price(rms, trs, ovs, room_id, check_in, check_out, g, td, single_raises) ==
    LET error == validate_dates(check_in, check_out, td)
        guest_error == validate_guests(g)
    IN  IF error # None
        THEN [PriceFault EXCEPT !.kind = "error", !.error = error]
        ELSE IF guest_error # None
        THEN [PriceFault EXCEPT !.kind = "error", !.error = guest_error]
        ELSE IF room_id \notin DOMAIN rms
        THEN IF single_raises THEN PriceFault
             ELSE [PriceFault EXCEPT !.kind = "error", !.error = "Room not found"]
        ELSE
        LET base_price == rms[room_id].price_per_night
            rows == trs[room_id]
            hits == {i \in 1..Len(rows) :
                        rows[i].min_guests <= g /\ g <= rows[i].max_guests}
            nightly_price == IF hits = {} THEN base_price
                             ELSE rows[SetMin(hits)].price_per_night
            ci == FromIso(check_in)
            co == FromIso(check_out)
            nights == co - ci
            InStay(o) == o.date >= ci /\ o.date < co
            date_overrides == SelectSeq(ovs[room_id], InStay)
            total == SumNights(date_overrides, ci, nights, nightly_price)
            taxes == RoundPct(total, TAX_RATE_PCT)
            service_fee == RoundPct(total, SERVICE_FEE_RATE_PCT)
        IN  [kind |-> "ok", error |-> None, nights |-> nights,
             nightly_rate |-> nightly_price, subtotal |-> total,
             total |-> total + taxes + service_fee]

-----------------------------------------------------------------------------
(* Text: a string is a sequence of characters *)

The(S) == CHOOSE x \in S : TRUE

\* the characters of the model in code-point order
Alphabet ==
    <<" ", "-", "@",
      "A", "B", "C", "D", "E", "F", "G", "H", "I", "J", "K", "L", "M",
      "N", "O", "P", "Q", "R", "S", "T", "U", "V", "W", "X", "Y", "Z",
      "a", "b", "c", "d", "e", "f", "g", "h", "i", "j", "k", "l", "m",
      "n", "o", "p", "q", "r", "s", "t", "u", "v", "w", "x", "y", "z">>

Code(c) == CHOOSE i \in 1..Len(Alphabet) : Alphabet[i] = c

Characters == {Alphabet[i] : i \in 1..Len(Alphabet)}
UpperCase == {Alphabet[i] : i \in 4..29}

\* the lower-case form of each character
LowerOf == [c \in Characters |-> IF c \in UpperCase THEN Alphabet[Code(c) + 26] ELSE c]

\* the code point order of the characters
CodeOf == [c \in Characters |-> Code(c)]

\* str.lower()
Lower(s) == [i \in 1..Len(s) |-> LowerOf[s[i]]]

RECURSIVE StripLeft(_)
StripLeft(s) == IF s # << >> /\ Head(s) = " " THEN StripLeft(Tail(s)) ELSE s

RECURSIVE StripRight(_)
StripRight(s) ==
    IF s # << >> /\ s[Len(s)] = " " THEN StripRight(SubSeq(s, 1, Len(s) - 1)) ELSE s

\* str.strip()
Strip(s) == StripRight(StripLeft(s))

\* needle in hay
Contains(hay, needle) ==
    \E i \in 0..(Len(hay) - Len(needle)) : SubSeq(hay, i + 1, i + Len(needle)) = needle

\* s < t, as Python orders strings
StrLess(s, t) ==
    \E i \in 1..Len(t) :
        /\ \A j \in 1..(i - 1) : j <= Len(s) /\ s[j] = t[j]
        /\ (i > Len(s) \/ CodeOf[s[i]] < CodeOf[t[i]])

\* (x or "").strip().lower() of an optional string
Normalized(x) == IF x = {} THEN << >> ELSE Lower(Strip(The(x)))

\* tools.py _contains_ci
_contains_ci(value, term) == Contains(Lower(value), term)

PET_FRIENDLY_KEYWORDS ==
    { <<"p", "e", "t", " ", "f", "r", "i", "e", "n", "d", "l", "y">>,
      <<"p", "e", "t", "s", " ", "a", "l", "l", "o", "w", "e", "d">>,
      <<"p", "e", "t", "s", " ", "w", "e", "l", "c", "o", "m", "e">>,
      <<"p", "e", "t", "-", "f", "r", "i", "e", "n", "d", "l", "y">> }

\* tools.py _room_is_pet_friendly
_room_is_pet_friendly(amenities) ==
    \E i \in 1..Len(amenities) :
        \E keyword \in PET_FRIENDLY_KEYWORDS : Contains(Lower(amenities[i]), keyword)

-----------------------------------------------------------------------------
(* Geography.  Coordinates are in tenths of a degree, on the grid            *)
(* lat 0..2, lng 0..1; HaversineMm is tools.py _haversine_distance_km        *)
(* (earth radius 6371 km) evaluated on that grid, in millimetres.            *)

HaversineMm ==
    <<0, 0, 0, 0>> :> 0 @@ <<0, 0, 0, 1>> :> 11119493 @@ <<0, 0, 1, 0>> :> 11119493 @@
    <<0, 0, 1, 1>> :> 15725333 @@ <<0, 0, 2, 0>> :> 22238985 @@ <<0, 0, 2, 1>> :> 24863931 @@
    <<0, 1, 0, 0>> :> 11119493 @@ <<0, 1, 0, 1>> :> 0 @@ <<0, 1, 1, 0>> :> 15725333 @@
    <<0, 1, 1, 1>> :> 11119493 @@ <<0, 1, 2, 0>> :> 24863931 @@ <<0, 1, 2, 1>> :> 22238985 @@
    <<1, 0, 0, 0>> :> 11119493 @@ <<1, 0, 0, 1>> :> 15725333 @@ <<1, 0, 1, 0>> :> 0 @@
    <<1, 0, 1, 1>> :> 11119476 @@ <<1, 0, 2, 0>> :> 11119493 @@ <<1, 0, 2, 1>> :> 15725309 @@
    <<1, 1, 0, 0>> :> 15725333 @@ <<1, 1, 0, 1>> :> 11119493 @@ <<1, 1, 1, 0>> :> 11119476 @@
    <<1, 1, 1, 1>> :> 0 @@ <<1, 1, 2, 0>> :> 15725309 @@ <<1, 1, 2, 1>> :> 11119493 @@
    <<2, 0, 0, 0>> :> 22238985 @@ <<2, 0, 0, 1>> :> 24863931 @@ <<2, 0, 1, 0>> :> 11119493 @@
    <<2, 0, 1, 1>> :> 15725309 @@ <<2, 0, 2, 0>> :> 0 @@ <<2, 0, 2, 1>> :> 11119425 @@
    <<2, 1, 0, 0>> :> 24863931 @@ <<2, 1, 0, 1>> :> 22238985 @@ <<2, 1, 1, 0>> :> 15725309 @@
    <<2, 1, 1, 1>> :> 11119493 @@ <<2, 1, 2, 0>> :> 11119425 @@ <<2, 1, 2, 1>> :> 0

\* tools.py _haversine_distance_km, in millimetres
_haversine_distance_km(origin_lat, origin_lng, target_lat, target_lng) ==
    HaversineMm[<<origin_lat, origin_lng, target_lat, target_lng>>]

\* stable sort: the position of element i of a sequence under Less
Rank(n, i, Less(_, _)) ==
    1 + Cardinality({j \in 1..n : Less(j, i) \/ (~Less(i, j) /\ j < i)})

-----------------------------------------------------------------------------
(* The data store the model starts from *)

Procs == {"w1", "w2"}
SessionIds == {"s1"}

Properties0 ==
    [p1 |-> [property_name |-> <<"H", "i", "l", "l">>, city |-> <<"V", "o">>,
             country |-> <<"U", "A">>, description |-> <<"s", "k", "i">>,
             lat |-> {0}, lng |-> {0}],
     p2 |-> [property_name |-> <<"c", "i", "t", "y">>, city |-> <<"L", "v">>,
             country |-> <<"U", "A">>, description |-> <<>>,
             lat |-> {1}, lng |-> {0}],
     p3 |-> [property_name |-> <<"A", "l", "p">>, city |-> <<"Z", "a">>,
             country |-> <<"P", "L">>, description |-> <<"s", "k", "i">>,
             lat |-> {}, lng |-> {}]]

Rooms0 ==
    [r1 |-> [property_id |-> "p1", name |-> <<"K", "i", "n", "g">>, type |-> <<"s", "u">>,
             description |-> <<"v", "i", "e", "w">>, price_per_night |-> 10000,
             max_guests |-> 4, amenities |-> << <<"W", "i", "F", "i">> >>,
             status |-> "active"],
     r2 |-> [property_id |-> "p1", name |-> <<"T", "w", "i", "n">>, type |-> <<"s", "t">>,
             description |-> <<>>, price_per_night |-> 6013,
             max_guests |-> 2, amenities |-> << <<"P", "e", "t", "s", " ", "a", "l", "l", "o", "w", "e", "d">> >>,
             status |-> "active"],
     r3 |-> [property_id |-> "p2", name |-> <<"L", "o", "f", "t">>, type |-> <<"s", "u">>,
             description |-> <<"s", "k", "i">>, price_per_night |-> 8000,
             max_guests |-> 3, amenities |-> <<>>,
             status |-> "active"],
     r4 |-> [property_id |-> "p3", name |-> <<"H", "u", "t">>, type |-> <<"s", "t">>,
             description |-> <<>>, price_per_night |-> 4000,
             max_guests |-> 2, amenities |-> << <<"p", "e", "t", "-", "f", "r", "i", "e", "n", "d", "l", "y">> >>,
             status |-> "draft"]]

Tiers0 ==
    [r1 |-> << [min_guests |-> 1, max_guests |-> 2, price_per_night |-> 9000],
               [min_guests |-> 3, max_guests |-> 4, price_per_night |-> 12000],
               [min_guests |-> 2, max_guests |-> 3, price_per_night |-> 11000] >>,
     r2 |-> << >>,
     r3 |-> << [min_guests |-> 3, max_guests |-> 3, price_per_night |-> 9500] >>,
     r4 |-> << >>]

Overrides0 ==
    [r1 |-> << [date |-> 3, price |-> 15000], [date |-> 5, price |-> 20000] >>,
     r2 |-> << [date |-> 4, price |-> 7001] >>,
     r3 |-> << >>,
     r4 |-> << >>]

NoArgs == [property_id |-> "p1", room_id |-> "r1", guest_name |-> "ann",
           guest_email |-> None, check_in |-> NoDate, check_out |-> NoDate,
           guests |-> 0, session_id |-> None, source |-> "widget",
           booking_status |-> "ai_pending"]

\* nb, ng: number of booking and guest rows when the invocation started
NoLoc == [nb |-> 0, ng |-> 0, available |-> FALSE, total |-> 0, nights |-> 0,
          guest_id |-> 0, booking_id |-> 0]

NoResult == [kind |-> "none", error |-> None, status |-> None, total |-> 0,
             booking_id |-> 0]

ErrorResult(msg) == [NoResult EXCEPT !.kind = "error", !.error = msg]
FaultResult == [NoResult EXCEPT !.kind = "fault"]

NoReq == [tool |-> "none"]
NoOut == [kind |-> "none"]

InitStore ==
    /\ properties = Properties0
    /\ rooms = Rooms0
    /\ tiers = Tiers0
    /\ overrides = Overrides0
    /\ bookings = << >>
    /\ guests = << >>
    /\ sessions = [s \in SessionIds |-> [property_id |-> "p1", guest_id |-> 0]]
    /\ audit = << >>

InitProcs ==
    /\ pc = [p \in Procs |-> "idle"]
    /\ args = [p \in Procs |-> NoArgs]
    /\ loc = [p \in Procs |-> NoLoc]
    /\ result = [p \in Procs |-> NoResult]
    /\ calls = 0

\* routes/chat.py line 44: defaultdict(list), an empty list for every IP
ClientIps == {"ip1", "ip2"}

InitChat ==
    /\ now = 0
    /\ _rate_limit_store = [ip \in ClientIps |-> << >>]

Init ==
    /\ today = Today0
    /\ InitStore
    /\ InitProcs
    /\ req = NoReq
    /\ out = NoOut
    /\ InitChat

-----------------------------------------------------------------------------
(* Audit sink: tools.py log_tool_call.  ok = FALSE: the insert raised and    *)
(* the exception was caught and logged.  The description column is left out, *)
(* and so are the payload columns of the booking tools' entries (passed as   *)
(* << >>): no operation reads them.                                          *)

AuditEntry(property_id, session_id, tool_name, source, rq, rs) ==
    [property_id |-> property_id, conversation_id |-> session_id,
     tool_name |-> tool_name, source |-> source, status |-> "success",
     request_payload |-> rq, response_payload |-> rs]

log_tool_call(aud, entry, ok) == IF ok THEN Append(aud, entry) ELSE aud

\* an audit insert whose failure is not caught
log_tool_call_uncaught(ok) == ~ok

\* lines 180-194: the insert sits in try/except Exception, so a failing insert
\* raises nothing to the caller
log_tool_call_raises(ok) == FALSE

\* what the caller gets when value was ready and the audit call made with ok ran
AfterLog(ok, value) == IF log_tool_call_raises(ok) THEN [value EXCEPT !.kind = "fault"] ELSE value

RECURSIVE LogEach(_, _, _, _)
\* one log_tool_call per entry, in order; oks[k] tells whether insert k succeeds
LogEach(aud, entries, oks, n) ==
    IF n = 0 THEN aud
    ELSE log_tool_call(LogEach(aud, entries, oks, n - 1), entries[n], oks[n])

-----------------------------------------------------------------------------
(* crud/booking.py *)

\* get_or_create_guest: the rows the lookup query matches
GuestMatches(gs, property_id, name, email) ==
    {i \in 1..Len(gs) : /\ gs[i].property_id = property_id
                        /\ gs[i].name = name
                        /\ (email # None => gs[i].email = email)}

\* a row that takes the default status instead of the caller's
BookingRowDefaultStatus(a, guest_id, total) ==
    [property_id |-> a.property_id, room_id |-> a.room_id, guest_id |-> guest_id,
     check_in |-> FromIso(a.check_in), check_out |-> FromIso(a.check_out),
     total_price |-> total, status |-> "ai_pending", source |-> a.source,
     conversation_id |-> a.session_id]

\* create_booking: the row inserted
BookingRow(a, guest_id, total) ==
    [property_id |-> a.property_id, room_id |-> a.room_id, guest_id |-> guest_id,
     check_in |-> FromIso(a.check_in), check_out |-> FromIso(a.check_out),
     total_price |-> total, status |-> a.booking_status, source |-> a.source,
     conversation_id |-> a.session_id]

\* an insert that stores the row twice
create_booking_twice(bks, row) == Append(Append(bks, row), row)

\* crud/booking.py create_booking: the insert into bookings
create_booking(bks, row) == Append(bks, row)

\* crud/chat.py link_session_to_guest
link_session_to_guest(ss, property_id, session_id, guest_id) ==
    [s \in DOMAIN ss |->
        IF s = session_id /\ ss[s].property_id = property_id
        THEN [ss[s] EXCEPT !.guest_id = guest_id]
        ELSE ss[s]]

-----------------------------------------------------------------------------
(* tools.py tool_create_booking, one action per data-store round of the      *)
(* workflow.  f names the data-store call of the step that raises ("none":   *)
(* every call succeeds).                                                     *)

Finish(p, r) ==
    /\ pc' = [pc EXCEPT ![p] = "done"]
    /\ result' = [result EXCEPT ![p] = r]

\* lines 952-972: the call and its two validations
Begin(p, A) ==
    /\ pc[p] = "idle"
    /\ calls < MaxCalls
    /\ calls' = calls + 1
    /\ \E a \in A :
        LET date_error == validate_dates(a.check_in, a.check_out, today)
            guest_error == validate_guests(a.guests)
        IN  /\ args' = [args EXCEPT ![p] = a]
            /\ loc' = [loc EXCEPT ![p] =
                          [NoLoc EXCEPT !.nb = Len(bookings), !.ng = Len(guests)]]
            /\ IF date_error # None THEN Finish(p, ErrorResult(date_error))
               ELSE IF guest_error # None THEN Finish(p, ErrorResult(guest_error))
               ELSE /\ pc' = [pc EXCEPT ![p] = "avail"]
                    /\ result' = [result EXCEPT ![p] = NoResult]
    /\ UNCHANGED <<chat, today, store, io>>

\* a workflow that goes on to the price without reading availability
CheckAvailabilityStepSkipped(p, f) ==
    /\ pc[p] = "avail"
    /\ f = "none"
    /\ pc' = [pc EXCEPT ![p] = "price"]
    /\ UNCHANGED <<chat, today, store, args, loc, result, calls, io>>

\* lines 974-985: check_availability (lines 805-846) and its audit entry
CheckAvailabilityStep(p, f) ==
    /\ pc[p] = "avail"
    /\ LET a == args[p]
           avail == check_availability(bookings, a.room_id, a.check_in, a.check_out, today)
       IN  IF f = "read" /\ avail.error = None
           THEN /\ Finish(p, FaultResult)
                /\ UNCHANGED <<audit, loc>>
           ELSE /\ audit' =
                      IF avail.logged
                      THEN log_tool_call(audit,
                              AuditEntry(a.property_id, a.session_id, "check_availability",
                                         a.source, << >>, << >>),
                              f # "log")
                      ELSE audit
                /\ loc' = [loc EXCEPT ![p].available = avail.available]
                /\ IF avail.logged /\ log_tool_call_raises(f # "log")
                   THEN Finish(p, FaultResult)
                   ELSE IF ~avail.available
                   THEN Finish(p, ErrorResult("Room is not available for the selected dates."))
                   ELSE /\ pc' = [pc EXCEPT ![p] = "price"]
                        /\ UNCHANGED result
    /\ UNCHANGED <<chat, today, properties, rooms, tiers, overrides, bookings, guests,
                   sessions, args, calls, io>>

\* lines 987-999: calculate_price (lines 849-949) and its audit entry
CalculatePriceStep(p, f) ==
    /\ pc[p] = "price"
    /\ \E single_raises \in BOOLEAN :
        LET a == args[p]
            pricing == calculate_price(rooms, tiers, overrides, a.room_id, a.check_in,
                                       a.check_out, a.guests, today, single_raises)
        IN  IF pricing.kind = "fault" \/ (f = "read" /\ pricing.error = None)
            THEN /\ Finish(p, FaultResult)
                 /\ UNCHANGED <<audit, loc>>
            ELSE IF pricing.kind = "error"
            THEN /\ Finish(p, ErrorResult(pricing.error))
                 /\ UNCHANGED <<audit, loc>>
            ELSE /\ audit' = log_tool_call(audit,
                                AuditEntry(a.property_id, a.session_id, "calculate_price",
                                           a.source, << >>, << >>),
                                f # "log")
                 /\ loc' = [loc EXCEPT ![p].total = pricing.total,
                                       ![p].nights = pricing.nights]
                 /\ IF log_tool_call_raises(f # "log")
                    THEN Finish(p, FaultResult)
                    ELSE /\ pc' = [pc EXCEPT ![p] = "guest"]
                         /\ UNCHANGED result
    /\ UNCHANGED <<chat, today, properties, rooms, tiers, overrides, bookings, guests,
                   sessions, args, calls, io>>

\* lines 1001-1004: get_or_create_guest (crud/booking.py 115-137), then
\* link_session_to_guest when the call carries a session id
GuestStep(p, f) ==
    /\ pc[p] = "guest"
    /\ LET a == args[p]
           existing == GuestMatches(guests, a.property_id, a.guest_name, a.guest_email)
           Linked(ss, gid) == IF a.session_id # None
                              THEN link_session_to_guest(ss, a.property_id, a.session_id, gid)
                              ELSE ss
       IN  IF f = "lookup" \/ (f = "insert" /\ existing = {})
           THEN /\ Finish(p, FaultResult)
                /\ UNCHANGED <<guests, sessions, loc>>
           ELSE \E gid \in (IF existing = {} THEN {Len(guests) + 1} ELSE existing) :
                /\ guests' = IF existing = {}
                             THEN Append(guests, [property_id |-> a.property_id,
                                                  name |-> a.guest_name,
                                                  email |-> a.guest_email])
                             ELSE guests
                /\ loc' = [loc EXCEPT ![p].guest_id = gid]
                /\ IF f = "link" /\ a.session_id # None
                   THEN /\ Finish(p, FaultResult)
                        /\ UNCHANGED sessions
                   ELSE /\ sessions' = Linked(sessions, gid)
                        /\ pc' = [pc EXCEPT ![p] = "insert"]
                        /\ UNCHANGED result
    /\ UNCHANGED <<chat, today, properties, rooms, tiers, overrides, bookings, audit,
                   args, calls, io>>

\* lines 1006-1041: create_booking (crud/booking.py 98-105: currency lookup on
\* rooms, the insert, currency display lookup), the audit entry and the return
CreateBookingStep(p, f) ==
    /\ pc[p] = "insert"
    /\ LET a == args[p]
           row == BookingRow(a, loc[p].guest_id, loc[p].total)
           id == Len(bookings) + 1
       IN  IF f \in {"resolve", "insert"}
           THEN /\ Finish(p, FaultResult)
                /\ UNCHANGED <<bookings, audit, loc>>
           ELSE /\ bookings' = create_booking(bookings, row)
                /\ loc' = [loc EXCEPT ![p].booking_id = id]
                /\ IF f = "attach"
                   THEN /\ Finish(p, FaultResult)
                        /\ UNCHANGED audit
                   ELSE /\ audit' = log_tool_call(audit,
                                       AuditEntry(a.property_id, a.session_id, "create_booking",
                                                  a.source, << >>, << >>),
                                       f # "log")
                        /\ Finish(p, AfterLog(f # "log",
                                     [kind |-> "ok", error |-> None,
                                      status |-> a.booking_status,
                                      total |-> loc[p].total, booking_id |-> id]))
    /\ UNCHANGED <<chat, today, properties, rooms, tiers, overrides, guests, sessions,
                   args, calls, io>>

\* the caller takes the result; the worker is free for the next invocation
Return(p) ==
    /\ pc[p] = "done"
    /\ pc' = [pc EXCEPT ![p] = "idle"]
    /\ args' = [args EXCEPT ![p] = NoArgs]
    /\ loc' = [loc EXCEPT ![p] = NoLoc]
    /\ result' = [result EXCEPT ![p] = NoResult]
    /\ UNCHANGED <<chat, today, store, calls, io>>

-----------------------------------------------------------------------------
(* The environment: the REST booking update and the calendar *)

\* api/routes/bookings.py update_existing_booking with crud update_booking:
\* fields of the payload that are None are left alone
update_booking(bks, booking_id, payload) ==
    [bks EXCEPT ![booking_id] =
        [check_in |-> IF payload.check_in = {} THEN @.check_in
                      ELSE SetMin(payload.check_in),
         check_out |-> IF payload.check_out = {} THEN @.check_out
                       ELSE SetMin(payload.check_out),
         status |-> IF payload.status = None THEN @.status ELSE payload.status,
         property_id |-> @.property_id, room_id |-> @.room_id,
         guest_id |-> @.guest_id, total_price |-> @.total_price,
         source |-> @.source, conversation_id |-> @.conversation_id]]

UpdateExistingBooking(P) ==
    /\ \E booking_id \in 1..Len(bookings), payload \in P :
        /\ update_booking(bookings, booking_id, payload) # bookings
        /\ bookings' = update_booking(bookings, booking_id, payload)
    /\ UNCHANGED <<chat, today, properties, rooms, tiers, overrides, guests, sessions,
                   audit, procs, io>>

CancelPayloads == {[check_in |-> {}, check_out |-> {}, status |-> "cancelled"]}

\* midnight passes
Tick ==
    /\ today < MaxToday
    /\ today' = today + 1
    /\ UNCHANGED <<chat, store, procs, io>>

-----------------------------------------------------------------------------
(* tools.py search_hotels: validation (lines 317-369) *)

\* the rows of rooms in the order the data store returns them
RoomOrder == <<"r1", "r2", "r3", "r4">>

has_coordinate_pair(f) == f.lat # {} /\ f.lng # {}

has_primary_criteria(f) ==
    \/ Normalized(f.query) # << >>
    \/ Normalized(f.property_name) # << >>
    \/ Normalized(f.city) # << >>
    \/ Normalized(f.country) # << >>
    \/ Normalized(f.room_name) # << >>
    \/ has_coordinate_pair(f)

BothDates(f) == Truthy(f.check_in) /\ Truthy(f.check_out)

\* the guest check made before the date check
search_hotels_error_guests_first(f, td) ==
    IF (f.lat = {}) # (f.lng = {})
    THEN "Both lat and lng must be provided together."
    ELSE IF f.radius_km <= 0 THEN "radius_km must be greater than 0."
    ELSE IF ~has_primary_criteria(f)
    THEN "At least one search criterion is required: query, property_name, city, country, room_name, or lat/lng."
    ELSE IF f.guests # {} /\ validate_guests(The(f.guests)) # None
    THEN validate_guests(The(f.guests))
    ELSE IF (Truthy(f.check_in) /\ ~Truthy(f.check_out))
            \/ (Truthy(f.check_out) /\ ~Truthy(f.check_in))
    THEN "Both check_in and check_out must be provided together."
    ELSE IF BothDates(f) /\ validate_dates(f.check_in, f.check_out, td) # None
    THEN validate_dates(f.check_in, f.check_out, td)
    ELSE IF f.budget_per_night_max # {} /\ The(f.budget_per_night_max) <= 0
    THEN "budget_per_night_max must be greater than 0."
    ELSE IF f.budget_total_max # {} /\ The(f.budget_total_max) <= 0
    THEN "budget_total_max must be greater than 0."
    ELSE IF f.budget_total_max # {} /\ ~BothDates(f)
    THEN "budget_total_max requires both check_in and check_out dates."
    ELSE None

\* the error search_hotels returns before it touches the data store, or None
search_hotels_error(f, td) ==
    IF (f.lat = {}) # (f.lng = {})
    THEN "Both lat and lng must be provided together."
    ELSE IF f.radius_km <= 0 THEN "radius_km must be greater than 0."
    ELSE IF ~has_primary_criteria(f)
    THEN "At least one search criterion is required: query, property_name, city, country, room_name, or lat/lng."
    ELSE IF (Truthy(f.check_in) /\ ~Truthy(f.check_out))
            \/ (Truthy(f.check_out) /\ ~Truthy(f.check_in))
    THEN "Both check_in and check_out must be provided together."
    ELSE IF BothDates(f) /\ validate_dates(f.check_in, f.check_out, td) # None
    THEN validate_dates(f.check_in, f.check_out, td)
    ELSE IF f.guests # {} /\ validate_guests(The(f.guests)) # None
    THEN validate_guests(The(f.guests))
    ELSE IF f.budget_per_night_max # {} /\ The(f.budget_per_night_max) <= 0
    THEN "budget_per_night_max must be greater than 0."
    ELSE IF f.budget_total_max # {} /\ The(f.budget_total_max) <= 0
    THEN "budget_total_max must be greater than 0."
    ELSE IF f.budget_total_max # {} /\ ~BothDates(f)
    THEN "budget_total_max requires both check_in and check_out dates."
    ELSE None

\* lines 371-396: the echo of the filters that were given
applied_filters(f) ==
    [query |-> IF Normalized(f.query) # << >> THEN {Strip(The(f.query))} ELSE {},
     property_name |-> IF Normalized(f.property_name) # << >> THEN f.property_name ELSE {},
     city |-> IF Normalized(f.city) # << >> THEN f.city ELSE {},
     country |-> IF Normalized(f.country) # << >> THEN f.country ELSE {},
     room_name |-> IF Normalized(f.room_name) # << >> THEN f.room_name ELSE {},
     lat |-> IF has_coordinate_pair(f) THEN f.lat ELSE {},
     lng |-> IF has_coordinate_pair(f) THEN f.lng ELSE {},
     radius_km |-> IF has_coordinate_pair(f) THEN {f.radius_km} ELSE {},
     check_in |-> IF BothDates(f) THEN f.check_in ELSE NoDate,
     check_out |-> IF BothDates(f) THEN f.check_out ELSE NoDate,
     guests |-> f.guests,
     pet_friendly |-> f.pet_friendly,
     budget_per_night_max |-> f.budget_per_night_max,
     budget_total_max |-> f.budget_total_max]

-----------------------------------------------------------------------------
(* tools.py search_hotels: the pipeline (lines 398-662) *)

\* lines 406-444: does a properties row survive, and at what distance (mm)
PropertyDistance(f, prop) ==
    _haversine_distance_km(The(f.lat), The(f.lng), The(prop.lat), The(prop.lng))

\* a property stage that asks for coordinates but not for the radius
PropertySurvivesAnyRadius(f, prop) ==
    /\ Normalized(f.property_name) # << >>
         => _contains_ci(Strip(prop.property_name), Normalized(f.property_name))
    /\ Normalized(f.city) # << >> => _contains_ci(prop.city, Normalized(f.city))
    /\ Normalized(f.country) # << >> => _contains_ci(prop.country, Normalized(f.country))
    /\ has_coordinate_pair(f) => (prop.lat # {} /\ prop.lng # {})

PropertySurvives(f, prop) ==
    /\ Normalized(f.property_name) # << >>
         => _contains_ci(Strip(prop.property_name), Normalized(f.property_name))
    /\ Normalized(f.city) # << >> => _contains_ci(prop.city, Normalized(f.city))
    /\ Normalized(f.country) # << >> => _contains_ci(prop.country, Normalized(f.country))
    /\ has_coordinate_pair(f)
         => /\ prop.lat # {} /\ prop.lng # {}
            /\ PropertyDistance(f, prop) <= f.radius_km * 1000000

\* distance_km of the result, rounded to 3 decimals (metres), or None
DistanceKm(f, prop) ==
    IF has_coordinate_pair(f) THEN {RoundRatio(PropertyDistance(f, prop), 1000)} ELSE {}

\* a room_name filter that looks at the room's name only, not at its type
RoomPassesFiltersNameOnly(f, room) ==
    /\ Normalized(f.room_name) # << >> => _contains_ci(room.name, Normalized(f.room_name))
    /\ f.guests # {} => room.max_guests >= The(f.guests)
    /\ f.pet_friendly = {TRUE} => _room_is_pet_friendly(room.amenities)
    /\ f.budget_per_night_max # {} => room.price_per_night <= The(f.budget_per_night_max)

\* lines 452-488: the active rooms of the surviving properties, narrowed by
\* room_name, guests, pet_friendly and budget_per_night_max
RoomPassesFilters(f, room) ==
    /\ Normalized(f.room_name) # << >>
         => \/ _contains_ci(room.name, Normalized(f.room_name))
            \/ _contains_ci(room.type, Normalized(f.room_name))
    /\ f.guests # {} => room.max_guests >= The(f.guests)
    /\ f.pet_friendly = {TRUE} => _room_is_pet_friendly(room.amenities)
    /\ f.budget_per_night_max # {} => room.price_per_night <= The(f.budget_per_night_max)

\* lines 544-563: the free-text match of a room or of its property
QueryMatches(q, room, prop) ==
    \/ _contains_ci(room.name, q)
    \/ _contains_ci(room.type, q)
    \/ _contains_ci(room.description, q)
    \/ \E i \in 1..Len(room.amenities) : _contains_ci(room.amenities[i], q)
    \/ _contains_ci(Strip(prop.property_name), q)
    \/ _contains_ci(prop.description, q)
    \/ _contains_ci(prop.city, q)
    \/ _contains_ci(prop.country, q)

\* a sequence sorted by Less on its positions, equal keys in their old order
SortedBy(seq, Less(_, _)) ==
    [k \in 1..Len(seq) |-> seq[CHOOSE i \in 1..Len(seq) : Rank(Len(seq), i, Less) = k]]

Elements(seq) == {seq[i] : i \in 1..Len(seq)}

HotelError(msg) ==
    [kind |-> "error", error |-> msg, hotels |-> << >>, count_hotels |-> 0,
     count_rooms |-> 0, applied |-> << >>, message |-> None, reads |-> << >>,
     logs |-> << >>]

\* tools.py _empty_hotel_search_result
_empty_hotel_search_result(applied, message, reads) ==
    [kind |-> "ok", error |-> None, hotels |-> << >>, count_hotels |-> 0,
     count_rooms |-> 0, applied |-> applied, message |-> message, reads |-> reads,
     logs |-> << >>]

\* lines 398-444: the ids of the properties that survive
SurvivingProperties(f, props) == {pid \in DOMAIN props : PropertySurvives(f, props[pid])}

\* lines 452-488: rooms after the room filters, in data-store order
CandidateRooms(f, rms, survivors) ==
    LET IsCandidate(rid) == /\ rid \in DOMAIN rms
                            /\ rms[rid].property_id \in survivors
                            /\ rms[rid].status = "active"
                            /\ RoomPassesFilters(f, rms[rid])
    IN  SelectSeq(RoomOrder, IsCandidate)

\* lines 490-491
AvailableRooms(f, bks, rooms3) ==
    LET IsFree(rid) ==
            rid \in _filter_available_rooms(bks, Elements(rooms3), f.check_in, f.check_out)
    IN  IF BothDates(f) THEN SelectSeq(rooms3, IsFree) ELSE rooms3

\* line 494: is the stay total computed
Priced(f, rooms4) == rooms4 # << >> /\ BothDates(f) /\ f.budget_total_max # {}

\* lines 493-531: room id -> stay total, for the rooms priced
room_total_map(f, rms, trs, ovs, rooms4) ==
    LET InStay(o) == o.date >= FromIso(f.check_in) /\ o.date < FromIso(f.check_out)
    IN  IF Priced(f, rooms4)
        THEN [rid \in Elements(rooms4) |->
                _calculate_room_total_price(rms[rid], f.guests, f.check_in, f.check_out,
                                            trs[rid], SelectSeq(ovs[rid], InStay))]
        ELSE << >>

\* lines 521-534
WithinBudget(f, rooms4, totals) ==
    LET InBudget(rid) == totals[rid] <= The(f.budget_total_max)
    IN  IF Priced(f, rooms4) THEN SelectSeq(rooms4, InBudget) ELSE rooms4

\* lines 536-565
MatchingQuery(f, props, rms, rooms5) ==
    LET Matches(rid) == QueryMatches(Normalized(f.query), rms[rid],
                                     props[rms[rid].property_id])
    IN  IF Normalized(f.query) # << >> THEN SelectSeq(rooms5, Matches) ELSE rooms5

\* lines 567-572: the property ids in the order of their first room
rooms_by_property(rms, rooms6) ==
    LET IsFirstOfProperty(i) ==
            \A j \in 1..(i - 1) : rms[rooms6[j]].property_id # rms[rooms6[i]].property_id
        Pid(i) == rms[rooms6[i]].property_id
        firsts == SelectSeq([i \in 1..Len(rooms6) |-> i], IsFirstOfProperty)
    IN  [k \in 1..Len(firsts) |-> Pid(firsts[k])]

\* lines 582-597: the rooms of one hotel, cheapest first
MatchingRooms(rms, totals, property_rooms) ==
    LET Cheaper(i, j) == rms[property_rooms[i]].price_per_night
                           < rms[property_rooms[j]].price_per_night
        Entry(rid) == [id |-> rid, property_id |-> rms[rid].property_id,
                       price_per_night |-> rms[rid].price_per_night,
                       max_guests |-> rms[rid].max_guests,
                       estimated_total_price |->
                           IF rid \in DOMAIN totals THEN {totals[rid]} ELSE {}]
    IN  [k \in 1..Len(property_rooms) |-> Entry(SortedBy(property_rooms, Cheaper)[k])]

\* a hotel whose min_price_per_night is the price of its dearest room
HotelDearest(f, props, rms, totals, property_rooms, pid) ==
    [property_id |-> pid,
     property_name |-> Strip(props[pid].property_name),
     distance_km |-> DistanceKm(f, props[pid]),
     min_price_per_night |->
        SetMax({rms[rid].price_per_night : rid \in Elements(property_rooms)}),
     available_rooms_count |-> Len(property_rooms),
     pet_friendly_option |->
        \E rid \in Elements(property_rooms) : _room_is_pet_friendly(rms[rid].amenities),
     matching_rooms |-> MatchingRooms(rms, totals, property_rooms)]

\* lines 575-619: one hotel of the result
Hotel(f, props, rms, totals, property_rooms, pid) ==
    [property_id |-> pid,
     property_name |-> Strip(props[pid].property_name),
     distance_km |-> DistanceKm(f, props[pid]),
     min_price_per_night |->
        SetMin({rms[rid].price_per_night : rid \in Elements(property_rooms)}),
     available_rooms_count |-> Len(property_rooms),
     pet_friendly_option |->
        \E rid \in Elements(property_rooms) : _room_is_pet_friendly(rms[rid].amenities),
     matching_rooms |-> MatchingRooms(rms, totals, property_rooms)]

HotelsOf(f, props, rms, totals, rooms6, pids) ==
    LET OfProperty(pid) == LET Is(rid) == rms[rid].property_id = pid
                           IN  SelectSeq(rooms6, Is)
    IN  [k \in 1..Len(pids) |-> Hotel(f, props, rms, totals, OfProperty(pids[k]), pids[k])]

\* a sort by name alone, whether or not coordinates were given
SortedHotelsByName(f, unsorted) ==
    LET ByName(i, j) == StrLess(Lower(unsorted[i].property_name),
                                Lower(unsorted[j].property_name))
    IN  SortedBy(unsorted, ByName)

\* lines 621-629
SortedHotels(f, unsorted) ==
    LET ByName(i, j) == StrLess(Lower(unsorted[i].property_name),
                                Lower(unsorted[j].property_name))
        ByDistanceThenName(i, j) ==
            \/ The(unsorted[i].distance_km) < The(unsorted[j].distance_km)
            \/ /\ The(unsorted[i].distance_km) = The(unsorted[j].distance_km)
               /\ StrLess(Lower(unsorted[i].property_name),
                          Lower(unsorted[j].property_name))
    IN  IF has_coordinate_pair(f) THEN SortedBy(unsorted, ByDistanceThenName)
        ELSE SortedBy(unsorted, ByName)

\* a count of the hotels where the rooms are to be counted
CountHotelsForRooms(hotels, k) == k

\* line 632: sum(len(hotel["matching_rooms"]) for hotel in hotels)
RECURSIVE CountRooms(_, _)
CountRooms(hotels, k) ==
    IF k = 0 THEN 0 ELSE CountRooms(hotels, k - 1) + Len(hotels[k].matching_rooms)

\* the relations read, in order
Reads(f, rooms3, rooms4) ==
    <<"properties", "rooms">>
    \o (IF BothDates(f) /\ rooms3 # << >> THEN <<"bookings">> ELSE << >>)
    \o (IF Priced(f, rooms4) THEN <<"room_guest_tiers", "room_date_pricing">> ELSE << >>)

\* a result logged once per search, under its first hotel, not once per hotel
HotelSearchResultLoggedOnce(f, hotels, count_rooms, reads) ==
    [kind |-> "ok", error |-> None, hotels |-> hotels,
     count_hotels |-> Len(hotels), count_rooms |-> count_rooms,
     applied |-> applied_filters(f),
     message |-> IF Len(hotels) > 0 THEN "Found"
                 ELSE "No hotels matched the provided filters.",
     reads |-> reads,
     logs |-> IF Len(hotels) = 0 THEN << >>
              ELSE <<AuditEntry(hotels[1].property_id, f.session_id, "search_hotels",
                                f.source, applied_filters(f),
                                [count_hotels |-> Len(hotels), count_rooms |-> count_rooms])>>]

\* lines 631-662: counts, message, one audit entry per hotel, the result
HotelSearchResult(f, hotels, count_rooms, reads) ==
    [kind |-> "ok", error |-> None, hotels |-> hotels,
     count_hotels |-> Len(hotels), count_rooms |-> count_rooms,
     applied |-> applied_filters(f),
     message |-> IF Len(hotels) > 0 THEN "Found"
                 ELSE "No hotels matched the provided filters.",
     reads |-> reads,
     logs |-> [k \in 1..Len(hotels) |->
                 AuditEntry(hotels[k].property_id, f.session_id, "search_hotels",
                            f.source, applied_filters(f),
                            [count_hotels |-> Len(hotels), count_rooms |-> count_rooms])]]

CountedResult(f, hotels, reads) ==
    HotelSearchResult(f, hotels, CountRooms(hotels, Len(hotels)), reads)

AfterTotals(f, props, rms, rooms3, rooms4, totals, rooms6) ==
    CountedResult(f,
        SortedHotels(f, HotelsOf(f, props, rms, totals, rooms6,
                                 rooms_by_property(rms, rooms6))),
        Reads(f, rooms3, rooms4))

AfterAvailability(f, props, rms, rooms3, rooms4, totals) ==
    AfterTotals(f, props, rms, rooms3, rooms4, totals,
                MatchingQuery(f, props, rms, WithinBudget(f, rooms4, totals)))

AfterRooms(f, props, rms, trs, ovs, rooms3, rooms4) ==
    AfterAvailability(f, props, rms, rooms3, rooms4,
                      room_total_map(f, rms, trs, ovs, rooms4))

AfterProperties(f, props, rms, trs, ovs, bks, rooms3) ==
    AfterRooms(f, props, rms, trs, ovs, rooms3, AvailableRooms(f, bks, rooms3))

\* lines 398-662: the search once the filters passed validation
search_hotels_pipeline(f, props, rms, trs, ovs, bks) ==
    IF SurvivingProperties(f, props) = {}
    THEN _empty_hotel_search_result(applied_filters(f),
             "No hotels matched the provided filters.", <<"properties">>)
    ELSE AfterProperties(f, props, rms, trs, ovs, bks,
                         CandidateRooms(f, rms, SurvivingProperties(f, props)))

\* a search that fetches the properties before it checks the budget rules
search_hotels_validates_late(f, props, rms, trs, ovs, bks, td) ==
    IF search_hotels_error(f, td) = None
    THEN search_hotels_pipeline(f, props, rms, trs, ovs, bks)
    ELSE IF search_hotels_error([f EXCEPT !.budget_per_night_max = {},
                                          !.budget_total_max = {}], td) = None
    THEN [HotelError(search_hotels_error(f, td)) EXCEPT !.reads = <<"properties">>]
    ELSE HotelError(search_hotels_error(f, td))

\* tools.py search_hotels
search_hotels(f, props, rms, trs, ovs, bks, td) ==
    IF search_hotels_error(f, td) # None
    THEN HotelError(search_hotels_error(f, td))
    ELSE search_hotels_pipeline(f, props, rms, trs, ovs, bks)

-----------------------------------------------------------------------------
(* tools.py search_rooms.  found: the room ids the semantic search           *)
(* (services/embedding.py search_similar) returned for the query.  The dates *)
(* are not validated; a non-empty string that is no date makes the bookings  *)
(* query raise.                                                              *)

RoomsFault == [kind |-> "fault", rooms |-> << >>, count |-> 0, message |-> None,
               logged |-> FALSE]

search_rooms(property_id, found, check_in, check_out, g, rms, bks) ==
    LET IsActiveOfProperty(rid) == /\ rid \in DOMAIN rms
                                   /\ rms[rid].property_id = property_id
                                   /\ rms[rid].status = "active"
        fallback == SelectSeq(RoomOrder, IsActiveOfProperty)
        room_ids == IF found = {} THEN {fallback[i] : i \in 1..Len(fallback)} ELSE found
        IsFetched(rid) == rid \in room_ids /\ rid \in DOMAIN rms /\ rms[rid].status = "active"
        rooms1 == SelectSeq(RoomOrder, IsFetched)
        HasCapacity(rid) == rms[rid].max_guests >= The(g)
        rooms2 == IF g # {} /\ The(g) # 0 THEN SelectSeq(rooms1, HasCapacity) ELSE rooms1
        dated == Truthy(check_in) /\ Truthy(check_out)
        IsFree(rid) == ConflictRows(bks, rid, FromIso(check_in), FromIso(check_out)) = {}
        rooms3 == IF dated THEN SelectSeq(rooms2, IsFree) ELSE rooms2
    IN  IF room_ids = {}
        THEN [kind |-> "ok", rooms |-> << >>, count |-> 0,
              message |-> "No rooms found for this property.", logged |-> FALSE]
        ELSE IF dated /\ rooms2 # << >> /\ ~(Parses(check_in) /\ Parses(check_out))
        THEN RoomsFault
        ELSE [kind |-> "ok", rooms |-> rooms3, count |-> Len(rooms3), message |-> None,
              logged |-> TRUE]

-----------------------------------------------------------------------------
(* The tools called on their own.  req is the call, out what it returned.    *)

Idle == out = NoOut

\* an audit insert succeeds or fails; req keeps the outcome next to the arguments
LogOutcomes == BOOLEAN

CheckAvailabilityTool(R, L) ==
    /\ Idle
    /\ \E r \in R, ok \in L :
        LET avail == check_availability(bookings, r.room_id, r.check_in, r.check_out, today)
            value == [kind |-> IF avail.error = None THEN "ok" ELSE "error",
                      error |-> avail.error, available |-> avail.available,
                      conflicts |-> avail.conflicts]
        IN  /\ req' = [tool |-> "check_availability", a |-> r, ok |-> ok]
            /\ out' = IF avail.logged THEN AfterLog(ok, value) ELSE value
            /\ audit' = IF avail.logged
                        THEN log_tool_call(audit,
                                AuditEntry(r.property_id, r.session_id, "check_availability",
                                           r.source, << >>, << >>), ok)
                        ELSE audit
    /\ UNCHANGED <<chat, today, properties, rooms, tiers, overrides, bookings, guests,
                   sessions, procs>>

CalculatePriceTool(R, L) ==
    /\ Idle
    /\ \E r \in R, single_raises \in BOOLEAN, ok \in L :
        LET pricing == calculate_price(rooms, tiers, overrides, r.room_id, r.check_in,
                                       r.check_out, r.guests, today, single_raises)
        IN  /\ req' = [tool |-> "calculate_price", a |-> r, ok |-> ok]
            /\ out' = IF pricing.kind = "ok" THEN AfterLog(ok, pricing) ELSE pricing
            /\ audit' = IF pricing.kind = "ok"
                        THEN log_tool_call(audit,
                                AuditEntry(r.property_id, r.session_id, "calculate_price",
                                           r.source, << >>, << >>), ok)
                        ELSE audit
    /\ UNCHANGED <<chat, today, properties, rooms, tiers, overrides, bookings, guests,
                   sessions, procs>>

SearchHotelsTool(F, L) ==
    /\ Idle
    /\ \E f \in F :
        \E found \in {search_hotels(f, properties, rooms, tiers, overrides, bookings, today)} :
        \E oks \in [1..Len(found.logs) -> L] :
            /\ req' = [tool |-> "search_hotels", a |-> f, oks |-> oks]
            /\ out' = IF \E k \in 1..Len(found.logs) : log_tool_call_raises(oks[k])
                      THEN [found EXCEPT !.kind = "fault"] ELSE found
            /\ audit' = LogEach(audit, found.logs, oks, Len(found.logs))
    /\ UNCHANGED <<chat, today, properties, rooms, tiers, overrides, bookings, guests,
                   sessions, procs>>

SearchRoomsTool(R, L) ==
    /\ Idle
    /\ \E r \in R, ok \in L :
        LET found == search_rooms(r.property_id, r.found, r.check_in, r.check_out,
                                  r.guests, rooms, bookings)
        IN  /\ req' = [tool |-> "search_rooms", a |-> r, ok |-> ok]
            /\ out' = IF found.logged THEN AfterLog(ok, found) ELSE found
            /\ audit' = IF found.logged
                        THEN log_tool_call(audit,
                                AuditEntry(r.property_id, r.session_id, "search_rooms",
                                           r.source, << >>, [count |-> found.count]), ok)
                        ELSE audit
    /\ UNCHANGED <<chat, today, properties, rooms, tiers, overrides, bookings, guests,
                   sessions, procs>>

\* guardrails.py validate_dates called with two dates
ValidateDatesCall(D) ==
    /\ Idle
    /\ \E check_in \in D, check_out \in D :
        /\ req' = [tool |-> "validate_dates", check_in |-> check_in, check_out |-> check_out]
        /\ out' = [kind |-> "value", error |-> validate_dates(check_in, check_out, today)]
    /\ UNCHANGED <<chat, today, store, procs>>

-----------------------------------------------------------------------------
(* The environment: the REST routes of the host dashboard *)

\* api/routes/bookings.py create_new_booking: no availability check
CreateNewBooking(P) ==
    /\ Len(bookings) < MaxRows
    /\ \E b \in P :
        LET existing == GuestMatches(guests, b.property_id, b.guest_name, None)
        IN  \E gid \in (IF existing = {} THEN {Len(guests) + 1} ELSE existing) :
            /\ guests' = IF existing = {}
                         THEN Append(guests, [property_id |-> b.property_id,
                                              name |-> b.guest_name, email |-> None])
                         ELSE guests
            /\ bookings' = create_booking(bookings,
                              [property_id |-> b.property_id, room_id |-> b.room_id,
                               guest_id |-> gid, check_in |-> b.check_in,
                               check_out |-> b.check_out, total_price |-> b.total_price,
                               status |-> b.status, source |-> None,
                               conversation_id |-> None])
    /\ UNCHANGED <<chat, today, properties, rooms, tiers, overrides, sessions, audit, procs, io>>

\* crud/room.py update_room: fields of the payload that are None are left alone
update_room(rms, room_id, payload) ==
    [rms EXCEPT ![room_id] =
        [@ EXCEPT !.status = IF payload.status = {} THEN @ ELSE The(payload.status),
                  !.price_per_night = IF payload.price_per_night = {} THEN @
                                      ELSE The(payload.price_per_night)]]

\* api/routes/rooms.py update_existing_room
UpdateExistingRoom(P) ==
    /\ \E payload \in P :
        /\ payload.room_id \in DOMAIN rooms
        /\ rooms[payload.room_id].property_id = payload.property_id
        /\ update_room(rooms, payload.room_id, payload) # rooms
        /\ rooms' = update_room(rooms, payload.room_id, payload)
    /\ UNCHANGED <<chat, today, properties, tiers, overrides, bookings, guests, sessions,
                   audit, procs, io>>

\* crud/property.py update_property: the address fields and the name given
update_property(props, property_id, payload) ==
    [props EXCEPT ![property_id] =
        [@ EXCEPT !.lat = IF payload.lat = {} THEN @ ELSE payload.lat,
                  !.lng = IF payload.lng = {} THEN @ ELSE payload.lng,
                  !.property_name = IF payload.name = {} THEN @ ELSE The(payload.name)]]

\* api/routes/properties.py update_existing_property
UpdateExistingProperty(P) ==
    /\ \E payload \in P :
        /\ payload.property_id \in DOMAIN properties
        /\ update_property(properties, payload.property_id, payload) # properties
        /\ properties' = update_property(properties, payload.property_id, payload)
    /\ UNCHANGED <<chat, today, rooms, tiers, overrides, bookings, guests, sessions,
                   audit, procs, io>>

-----------------------------------------------------------------------------
(* Concurrent tool_create_booking invocations against one data store *)

IsoDays(D) == {Iso(d) : d \in D}

CheckIns == IsoDays(Today0..Today0 + StayDays - 1)
CheckOuts == IsoDays(Today0 + 1..Today0 + StayDays)

ArgsConc ==
    [property_id : {"p1"}, room_id : {"r1", "r2"}, guest_name : {"ann"},
     guest_email : {None}, check_in : CheckIns, check_out : CheckOuts,
     guests : {2}, session_id : {None}, source : {"mcp"},
     booking_status : {"ai_pending"}]

Next ==
    \/ \E p \in Procs : Begin(p, ArgsConc)
    \/ \E p \in Procs : CheckAvailabilityStep(p, "none")
    \/ \E p \in Procs : CalculatePriceStep(p, "none")
    \/ \E p \in Procs : GuestStep(p, "none")
    \/ \E p \in Procs : CreateBookingStep(p, "none")
    \/ \E p \in Procs : Return(p)
    \/ Tick

Spec == Init /\ [][Next]_vars

-----------------------------------------------------------------------------
(* Sequential invocations: a call starts only when no other is in progress.  *)
(* Hosts cancel bookings through the REST update in between.                 *)

Quiet == \A q \in Procs : pc[q] = "idle"

\* every stay of the window on room r1, one stay on room r2 with another
\* guest count and status, and calls with a guest count out of range
ArgsSeq ==
    [property_id : {"p1"}, room_id : {"r1"}, guest_name : {"ann"},
     guest_email : {None}, check_in : CheckIns, check_out : CheckOuts,
     guests : {2, 3}, session_id : {None}, source : {"widget"},
     booking_status : {"ai_pending", "cancelled"}]
    \cup
    [property_id : {"p1"}, room_id : {"r2"}, guest_name : {"bob"},
     guest_email : {"b@x"}, check_in : {Iso(Today0)}, check_out : {Iso(Today0 + StayDays)},
     guests : {3}, session_id : {"s1"}, source : {"widget"},
     booking_status : {"confirmed"}]
    \cup
    [property_id : {"p1"}, room_id : {"r1"}, guest_name : {"ann"},
     guest_email : {None}, check_in : {Iso(Today0)}, check_out : {Iso(Today0 + StayDays)},
     guests : {0, MAX_GUESTS + 1}, session_id : {None}, source : {"widget"},
     booking_status : {"ai_pending"}]

NextSeq ==
    \/ \E p \in Procs : Quiet /\ Begin(p, ArgsSeq)
    \/ \E p \in Procs : CheckAvailabilityStep(p, "none")
    \/ \E p \in Procs : CalculatePriceStep(p, "none")
    \/ \E p \in Procs : GuestStep(p, "none")
    \/ \E p \in Procs : CreateBookingStep(p, "none")
    \/ \E p \in Procs : Return(p)
    \/ UpdateExistingBooking(CancelPayloads)
    \/ Tick

SpecSeq == Init /\ [][NextSeq]_vars

-----------------------------------------------------------------------------
(* Sequential invocations in which any data-store call may raise *)

ArgsFail ==
    [property_id : {"p1"}, room_id : {"r1", "r9"}, guest_name : {"ann"},
     guest_email : {None}, check_in : CheckIns, check_out : CheckOuts,
     guests : {0, 2}, session_id : {None, "s1"}, source : {"widget"},
     booking_status : {"ai_pending"}]

NextFail ==
    \/ \E p \in Procs : Quiet /\ Begin(p, ArgsFail)
    \/ \E p \in Procs, f \in {"none", "read", "log"} : CheckAvailabilityStep(p, f)
    \/ \E p \in Procs, f \in {"none", "read", "log"} : CalculatePriceStep(p, f)
    \/ \E p \in Procs, f \in {"none", "lookup", "insert", "link"} : GuestStep(p, f)
    \/ \E p \in Procs, f \in {"none", "resolve", "insert", "attach", "log"} :
            CreateBookingStep(p, f)
    \/ \E p \in Procs : Return(p)

SpecFail == Init /\ [][NextFail]_vars

-----------------------------------------------------------------------------
(* The tools called against stores that hosts fill through the REST routes   *)

\* the stays [ci, co) of the window, as day ordinals and as date strings
StaysInt == {st \in (Today0..(Today0 + StayDays)) \X (Today0..(Today0 + StayDays)) :
                st[1] < st[2]}
Stays == {<<Iso(st[1]), Iso(st[2])>> : st \in StaysInt}

RestRows ==
    {[property_id |-> "p1", room_id |-> "r1", guest_name |-> "ann",
      check_in |-> st[1], check_out |-> st[2], total_price |-> 100, status |-> status] :
        st \in StaysInt, status \in {"confirmed", "cancelled"}}
    \cup
    {[property_id |-> "p2", room_id |-> "r3", guest_name |-> "ann",
      check_in |-> Today0, check_out |-> Today0 + StayDays, total_price |-> 100,
      status |-> "pending"]}

AvailabilityRequests ==
    [property_id : {"p1"}, room_id : {"r1"},
     check_in : CheckIns \cup {Iso(Today0 - 1)}, check_out : CheckOuts,
     session_id : {None}, source : {"mcp"}]

NoFilter ==
    [query |-> {}, property_name |-> {}, city |-> {}, country |-> {}, room_name |-> {},
     lat |-> {}, lng |-> {}, radius_km |-> 20, check_in |-> NoDate, check_out |-> NoDate,
     guests |-> {}, pet_friendly |-> {}, budget_per_night_max |-> {},
     budget_total_max |-> {}, session_id |-> None, source |-> "mcp"]

\* searches by country, with and without dates and a total budget
HotelFilters ==
    {[NoFilter EXCEPT !.country = {<<"u", "a">>}, !.check_in = st[1], !.check_out = st[2],
                      !.budget_total_max = b] :
        st \in Stays \cup {<<NoDate, NoDate>>}, b \in {{}, {10000}}}

RoomSearches ==
    {[property_id |-> "p1", found |-> found, check_in |-> st[1], check_out |-> st[2],
      guests |-> {3}, session_id |-> None, source |-> "widget"] :
        found \in {{}, {"r1"}},
        st \in Stays \cup {<<NoDate, NoDate>>, <<BadDate, Iso(Today0 + 1)>>}}

NextTools ==
    \/ Idle /\ CreateNewBooking(RestRows)
    \/ Idle /\ UpdateExistingBooking(CancelPayloads)
    \/ CheckAvailabilityTool(AvailabilityRequests, LogOutcomes)
    \/ SearchHotelsTool(HotelFilters, LogOutcomes)
    \/ SearchRoomsTool(RoomSearches, LogOutcomes)

SpecTools == Init /\ [][NextTools]_vars

-----------------------------------------------------------------------------
(* Bookings, searches and room edits side by side *)

ArgsFrame ==
    [property_id : {"p1"}, room_id : {"r1"}, guest_name : {"ann", "bob"},
     guest_email : {None}, check_in : CheckIns, check_out : CheckOuts,
     guests : {2}, session_id : {None}, source : {"chatgpt"},
     booking_status : {"ai_pending"}]

RoomUpdates ==
    {[property_id |-> "p1", room_id |-> "r2", status |-> {"draft"}, price_per_night |-> {}],
     [property_id |-> "p1", room_id |-> "r1", status |-> {}, price_per_night |-> {9900}]}

PriceRequests ==
    [property_id : {"p1"}, room_id : {"r1", "r9"},
     check_in : {Iso(Today0)}, check_out : {Iso(Today0 + StayDays)},
     guests : {0, 2}, session_id : {None}, source : {"mcp"}]

FrameAvailabilityRequests ==
    [property_id : {"p1"}, room_id : {"r1"},
     check_in : {Iso(Today0 - 1), Iso(Today0)}, check_out : {Iso(Today0 + StayDays)},
     session_id : {None}, source : {"mcp"}]

FrameFilters ==
    {[NoFilter EXCEPT !.query = {<<"s", "k", "i">>}, !.check_in = Iso(Today0),
                      !.check_out = Iso(Today0 + 1), !.budget_total_max = b] :
        b \in {{}, {0}, {10000}}}

FrameRoomSearches ==
    {[property_id |-> "p1", found |-> {}, check_in |-> Iso(Today0),
      check_out |-> Iso(Today0 + StayDays), guests |-> g, session_id |-> None,
      source |-> "widget"] : g \in {{}, {0}, {3}}}

NextFrame ==
    \/ \E p \in Procs : Quiet /\ Begin(p, ArgsFrame)
    \/ \E p \in Procs : CheckAvailabilityStep(p, "none")
    \/ \E p \in Procs : CalculatePriceStep(p, "none")
    \/ \E p \in Procs : GuestStep(p, "none")
    \/ \E p \in Procs : CreateBookingStep(p, "none")
    \/ \E p \in Procs : Return(p)
    \/ Quiet /\ CheckAvailabilityTool(FrameAvailabilityRequests, {TRUE})
    \/ Quiet /\ CalculatePriceTool(PriceRequests, {TRUE})
    \/ Quiet /\ SearchHotelsTool(FrameFilters, {TRUE})
    \/ Quiet /\ SearchRoomsTool(FrameRoomSearches, {TRUE})
    \/ Quiet /\ UpdateExistingRoom(RoomUpdates)

SpecFrame == Init /\ [][NextFrame]_vars

-----------------------------------------------------------------------------
(* search_hotels called with every combination of sound and unsound filters *)

ValidationFilters ==
    {[NoFilter EXCEPT !.lat = lat, !.lng = lng, !.radius_km = radius_km, !.city = city,
                      !.check_in = check_in, !.check_out = check_out, !.guests = g,
                      !.budget_per_night_max = per_night, !.budget_total_max = total] :
        lat \in {{}, {0}}, lng \in {{}, {0}}, radius_km \in {0, 20},
        city \in {{}, {<<" ", " ">>}, {<<"V", "o">>}},
        check_in \in {NoDate, EmptyDate, Iso(Today0 - 1), Iso(Today0)},
        check_out \in {NoDate, Iso(Today0 + 1)},
        g \in {{}, {0}, {2}, {MAX_GUESTS + 1}},
        per_night \in {{}, {0}, {10000}}, total \in {{}, {0}, {1000000}}}

NextValidate == SearchHotelsTool(ValidationFilters, LogOutcomes)

SpecValidate == Init /\ [][NextValidate]_vars

-----------------------------------------------------------------------------
(* validate_dates called on every pair of dates around its limits *)

DateInputs ==
    IsoDays(0..(MaxToday + MAX_ADVANCE_DAYS + MAX_STAY_NIGHTS + 2)) \cup {BadDate}

NextDates ==
    \/ ValidateDatesCall(DateInputs)
    \/ Idle /\ Tick

SpecDates == Init /\ [][NextDates]_vars

-----------------------------------------------------------------------------
(* search_hotels over every stage of its pipeline, on stores the dashboard edits *)

\* p2 moved onto p1's coordinates; p2 renamed to p1's name in capitals
PropertyUpdates ==
    {[property_id |-> "p2", name |-> {}, lat |-> {0}, lng |-> {}],
     [property_id |-> "p2", name |-> {<<"H", "I", "L", "L">>}, lat |-> {}, lng |-> {}]}

SearchRows ==
    {[property_id |-> "p1", room_id |-> "r1", guest_name |-> "ann",
      check_in |-> Today0, check_out |-> Today0 + 1, total_price |-> 100,
      status |-> "confirmed"],
     [property_id |-> "p2", room_id |-> "r3", guest_name |-> "ann",
      check_in |-> Today0, check_out |-> Today0 + StayDays, total_price |-> 100,
      status |-> "cancelled"]}

\* the draft room of p3, the property without coordinates, is published
RoomPublications ==
    {[property_id |-> "p3", room_id |-> "r4", status |-> {"active"}, price_per_night |-> {}]}

Point(la, ln, r) == [lat |-> la, lng |-> ln, radius_km |-> r]

\* filters on the properties and on the order, then filters on the rooms
SearchFilters ==
    {[NoFilter EXCEPT !.property_name = n, !.city = c, !.country = k, !.query = q,
                      !.lat = pt.lat, !.lng = pt.lng, !.radius_km = pt.radius_km] :
        n \in {{}, {<<"h", "i", "l", "l">>}}, c \in {{}, {<<"v">>}},
        k \in {{}, {<<"u", "a">>}}, q \in {{}, {<<"s", "k", "i">>}},
        pt \in {Point({}, {}, 20), Point({0}, {0}, 20), Point({0}, {0}, 5),
                Point({2}, {1}, 20)}}
    \cup
    {[NoFilter EXCEPT !.country = {<<"u", "a">>}, !.room_name = n, !.guests = g,
                      !.pet_friendly = pf, !.budget_per_night_max = b, !.query = q,
                      !.check_in = st[1], !.check_out = st[2], !.budget_total_max = st[3]] :
        n \in {{}, {<<"S", "u">>}}, g \in {{}, {3}}, pf \in {{}, {TRUE}},
        b \in {{}, {8000}}, q \in {{}, {<<"K", "i", "n", "g">>}},
        st \in {<<NoDate, NoDate, {}>>}
                \cup ({Iso(Today0), Iso(Today0 + 1)} \X {Iso(Today0 + StayDays)}
                      \X {{}, {18000}})}

NextSearch ==
    \/ Idle /\ CreateNewBooking(SearchRows)
    \/ Idle /\ UpdateExistingProperty(PropertyUpdates)
    \/ Idle /\ UpdateExistingRoom(RoomPublications)
    \/ SearchHotelsTool(SearchFilters, LogOutcomes)

SpecSearch == Init /\ [][NextSearch]_vars

-----------------------------------------------------------------------------
(* The five tools with audit inserts that may fail *)

ArgsAudit ==
    [property_id : {"p1"}, room_id : {"r1"}, guest_name : {"ann"},
     guest_email : {None}, check_in : {Iso(Today0)}, check_out : {Iso(Today0 + 1)},
     guests : {0, 2}, session_id : {"s1"}, source : {"chatgpt"},
     booking_status : {"ai_pending"}]

AuditFilters ==
    {[NoFilter EXCEPT !.country = c, !.source = src, !.session_id = sid, !.guests = g] :
        c \in {{}, {<<"u", "a">>}, {<<"p", "l">>}}, src \in {"mcp", "chatgpt"},
        sid \in {None, "s1"}, g \in {{}, {3}}}

\* one worker at a time books; the other tools are called between bookings
NextAudit ==
    \/ Quiet /\ Idle /\ Begin("w1", ArgsAudit)
    \/ \E f \in {"none", "log"} : CheckAvailabilityStep("w1", f)
    \/ \E f \in {"none", "log"} : CalculatePriceStep("w1", f)
    \/ GuestStep("w1", "none")
    \/ \E f \in {"none", "log"} : CreateBookingStep("w1", f)
    \/ Return("w1")
    \/ Quiet /\ CheckAvailabilityTool(FrameAvailabilityRequests, LogOutcomes)
    \/ Quiet /\ CalculatePriceTool(PriceRequests, LogOutcomes)
    \/ Quiet /\ SearchHotelsTool(AuditFilters, LogOutcomes)
    \/ Quiet /\ SearchRoomsTool(FrameRoomSearches, LogOutcomes)

SpecAudit == Init /\ [][NextAudit]_vars

-----------------------------------------------------------------------------
(* The pricing engine called on rooms, tier lists and override lists *)

\* tools.py _nightly_rate_for_guests called with a room, a guest count and tiers
NightlyRateCall(I) ==
    /\ Idle
    /\ \E i \in I :
        /\ req' = [tool |-> "_nightly_rate_for_guests", a |-> i]
        /\ out' = [kind |-> "value",
                   rate |-> _nightly_rate_for_guests(i.room, i.guests, i.guest_tiers)]
    /\ UNCHANGED <<chat, today, store, procs>>

\* tools.py _calculate_room_total_price called with a stay
TotalPriceCall(I) ==
    /\ Idle
    /\ \E i \in I :
        /\ req' = [tool |-> "_calculate_room_total_price", a |-> i]
        /\ out' = [kind |-> "value",
                   total |-> _calculate_room_total_price(i.room, i.guests, i.check_in,
                                 i.check_out, i.guest_tiers, i.date_overrides)]
    /\ UNCHANGED <<chat, today, store, procs>>

\* tools.py _calculate_room_total_price called for two guest counts on one stay
TotalPricePairCall(I, G) ==
    /\ Idle
    /\ \E i \in I, g1 \in G, g2 \in G :
        /\ g1 <= g2
        /\ req' = [tool |-> "stay_totals", a |-> i, g1 |-> g1, g2 |-> g2]
        /\ out' = [kind |-> "value",
                   low |-> _calculate_room_total_price(i.room, {g1}, i.check_in,
                               i.check_out, i.guest_tiers, i.date_overrides),
                   high |-> _calculate_room_total_price(i.room, {g2}, i.check_in,
                                i.check_out, i.guest_tiers, i.date_overrides)]
    /\ UNCHANGED <<chat, today, store, procs>>

Tier(lo, hi, price) == [min_guests |-> lo, max_guests |-> hi, price_per_night |-> price]

TierLists ==
    {<< >>, Tiers0.r1, Tiers0.r3,
     <<Tier(1, 2, 9000), Tier(3, 4, 12000)>>,
     <<Tier(1, 2, 9000), Tier(2, 3, 11000)>>,
     <<Tier(1, 2, 12000), Tier(3, 4, 9000)>>,
     <<Tier(1, 3, 8000), Tier(4, MAX_GUESTS, 10000)>>}

OverrideLists ==
    {<< >>,
     <<[date |-> Today0, price |-> 15000]>>,
     <<[date |-> Today0 + 1, price |-> 7001], [date |-> Today0 + StayDays, price |-> 20000]>>,
     <<[date |-> Today0 - 1, price |-> 5000], [date |-> Today0, price |-> 33]>>}

PricedRooms == {[Rooms0.r1 EXCEPT !.price_per_night = c] : c \in (1..MaxCents) \cup {10000}}

RateInputs ==
    [room : {Rooms0.r1, Rooms0.r3}, guests : {{}} \cup {{n} : n \in 0..5},
     guest_tiers : TierLists]

TotalInputs ==
    [room : PricedRooms, guests : {{}, {3}},
     check_in : {Iso(Today0)}, check_out : IsoDays((Today0 - 1)..(Today0 + StayDays)),
     guest_tiers : {<< >>, Tiers0.r1}, date_overrides : OverrideLists]

PairInputs ==
    [room : {Rooms0.r1, [Rooms0.r1 EXCEPT !.price_per_night = 12000]},
     check_in : {Iso(Today0)}, check_out : {Iso(Today0 + StayDays)},
     guest_tiers : TierLists, date_overrides : {<< >>, <<[date |-> Today0, price |-> 15000]>>}]

StayRequests ==
    [property_id : {"p1"}, room_id : {"r1", "r2", "r3"},
     check_in : CheckIns, check_out : CheckOuts,
     guests : 1..4, session_id : {None}, source : {"mcp"}]

NextPrice ==
    \/ NightlyRateCall(RateInputs)
    \/ TotalPriceCall(TotalInputs)
    \/ TotalPricePairCall(PairInputs, 1..MAX_GUESTS)
    \/ CalculatePriceTool(StayRequests, LogOutcomes)

SpecPrice == Init /\ [][NextPrice]_vars

-----------------------------------------------------------------------------
(* Claims on the booking workflow *)

Overlap(b1, b2) == b1.check_in < b2.check_out /\ b2.check_in < b1.check_out

Unavailable == ErrorResult("Room is not available for the selected dates.")

\* C1: in every reachable state of concurrent tool_create_booking invocations,
\* no two non-cancelled bookings of one room have overlapping [check_in, check_out)
C1_NoOverlap ==
    \A i, j \in 1..Len(bookings) :
        (/\ i < j
         /\ bookings[i].room_id = bookings[j].room_id
         /\ bookings[i].status # "cancelled"
         /\ bookings[j].status # "cancelled")
        => ~Overlap(bookings[i], bookings[j])

\* a booking that was there when invocation p started, is still not cancelled,
\* and overlaps the stay p asks for on the same room
Blocked(p) ==
    \E i \in 1..loc[p].nb :
        /\ bookings[i].room_id = args[p].room_id
        /\ bookings[i].status # "cancelled"
        /\ bookings[i].check_in < FromIso(args[p].check_out)
        /\ bookings[i].check_out > FromIso(args[p].check_in)

ValidStay(p) == validate_dates(args[p].check_in, args[p].check_out, today) = None

\* C2 as stated: a later sequential call for a booked room whose valid stay
\* overlaps a booking that is not cancelled returns the unavailable-room error
\* and adds no booking row
C2_Original ==
    \A p \in Procs :
        (pc[p] = "done" /\ ValidStay(p) /\ Blocked(p))
        => (result[p] = Unavailable /\ Len(bookings) = loc[p].nb)

\* C2 amended: the same, for calls whose guest count is valid (1..20)
C2_Amended ==
    \A p \in Procs :
        (/\ pc[p] = "done" /\ ValidStay(p) /\ Blocked(p)
         /\ validate_guests(args[p].guests) = None)
        => (result[p] = Unavailable /\ Len(bookings) = loc[p].nb)

C2_Witness ==
    \E p \in Procs :
        /\ pc[p] = "done" /\ ValidStay(p) /\ Blocked(p)
        /\ validate_guests(args[p].guests) = None
        /\ result[p] = Unavailable

\* C5: an invocation that returned an error or raised has left the booking
\* rows as they were when it started
C5_NoPartialBooking ==
    \A p \in Procs :
        (pc[p] = "done" /\ result[p].kind \in {"error", "fault"})
        => Len(bookings) = loc[p].nb

\* C7: the step in which tool_create_booking succeeds returns the caller's
\* booking_status and the stay total of the pricing engine for the same room,
\* guests, dates, tiers and overrides, and the row it persisted carries both
C7_SuccessPayload ==
    [][\A p \in Procs :
        (pc[p] = "insert" /\ pc'[p] = "done" /\ result'[p].kind = "ok")
        => LET a == args[p]
               r == result'[p]
               total == _calculate_room_total_price(rooms[a.room_id], {a.guests},
                            a.check_in, a.check_out, tiers[a.room_id],
                            overrides[a.room_id])
           IN  /\ r.status = a.booking_status
               /\ r.total = total
               /\ r.booking_id \in 1..Len(bookings')
               /\ bookings'[r.booking_id].status = a.booking_status
               /\ bookings'[r.booking_id].total_price = total
               /\ bookings'[r.booking_id].room_id = a.room_id
               /\ bookings'[r.booking_id].check_in = FromIso(a.check_in)
               /\ bookings'[r.booking_id].check_out = FromIso(a.check_out)]_vars

\* a success priced by a guest tier and a date override, with a status that is
\* not the default
C7_Witness ==
    \E p \in Procs :
        /\ pc[p] = "done" /\ result[p].kind = "ok"
        /\ result[p].status # "ai_pending"
        /\ result[p].total # StayTotal(rooms[args[p].room_id].price_per_night
                                 * (FromIso(args[p].check_out) - FromIso(args[p].check_in)))

-----------------------------------------------------------------------------
(* Claims on availability and on the frame of the tools *)

\* C3: for a valid interval [ci, co), check_availability answers available =
\* false exactly when a booking of the room that is not cancelled has
\* check_in < co and check_out > ci; a booking that ends on the day the stay
\* starts, or starts on the day the stay ends, does not block it
C3_AvailabilityRule ==
    [][(/\ out' # out
        /\ req'.tool = "check_availability"
        /\ validate_dates(req'.a.check_in, req'.a.check_out, today) = None)
       => /\ out'.kind = "ok"
          /\ out'.available =
                ~(\E i \in 1..Len(bookings) :
                    /\ bookings[i].room_id = req'.a.room_id
                    /\ bookings[i].status # "cancelled"
                    /\ bookings[i].check_in < req'.a.check_out.d
                    /\ bookings[i].check_out > req'.a.check_in.d)]_vars

\* the room is reported free for a stay that starts on the day a live booking ends
C3_Witness ==
    /\ req.tool = "check_availability"
    /\ out.kind = "ok"
    /\ out.available
    /\ \E i \in 1..Len(bookings) :
        /\ bookings[i].room_id = req.a.room_id
        /\ bookings[i].status # "cancelled"
        /\ bookings[i].check_out = req.a.check_in.d

\* the bookings that are not cancelled
Live(bks) ==
    LET IsLive(b) == b.status # "cancelled"
    IN  SelectSeq(bks, IsLive)

\* C4: cancelled bookings never block availability: what check_availability,
\* search_hotels and search_rooms return on a store is what they return on the
\* store without its cancelled bookings (so adding, removing or re-dating
\* cancelled bookings changes nothing)
C4_CancelledNeverBlocks ==
    [][out' # out =>
        CASE req'.tool = "check_availability" ->
                LET r == check_availability(Live(bookings), req'.a.room_id,
                                            req'.a.check_in, req'.a.check_out, today)
                IN  r.available = out'.available /\ r.error = out'.error
          [] req'.tool = "search_hotels" ->
                search_hotels(req'.a, properties, rooms, tiers, overrides,
                              Live(bookings), today).hotels = out'.hotels
          [] req'.tool = "search_rooms" ->
                search_rooms(req'.a.property_id, req'.a.found, req'.a.check_in,
                             req'.a.check_out, req'.a.guests, rooms,
                             Live(bookings)).rooms = out'.rooms
          [] OTHER -> TRUE]_vars

\* a hotel search returns a room although a cancelled booking of that room
\* overlaps the dates searched
C4_Witness ==
    /\ req.tool = "search_hotels"
    /\ out.kind = "ok"
    /\ BothDates(req.a)
    /\ \E i \in 1..Len(bookings) :
        /\ bookings[i].status = "cancelled"
        /\ bookings[i].check_in < req.a.check_out.d
        /\ bookings[i].check_out > req.a.check_in.d
        /\ \E h \in 1..Len(out.hotels) :
            \E m \in 1..Len(out.hotels[h].matching_rooms) :
                out.hotels[h].matching_rooms[m].id = bookings[i].room_id

\* C6: a successful tool_create_booking invocation has added exactly one
\* booking row and at most one guest row since it started; no step of it and
\* no search_hotels, search_rooms, check_availability or calculate_price call
\* changes a property or room row
C6_Frame ==
    [][/\ (out' # out \/ pc' # pc) => (rooms' = rooms /\ properties' = properties)
       /\ \A p \in Procs :
            (pc[p] = "insert" /\ pc'[p] = "done" /\ result'[p].kind = "ok")
            => /\ Len(bookings') = loc[p].nb + 1
               /\ SubSeq(bookings', 1, loc[p].nb) = SubSeq(bookings, 1, loc[p].nb)
               /\ Len(guests') \in {loc[p].ng, loc[p].ng + 1}
               /\ SubSeq(guests', 1, loc[p].ng) = SubSeq(guests, 1, loc[p].ng)]_vars

\* a success that reused a guest row, after a search and a room edit
C6_Witness ==
    /\ out # NoOut
    /\ rooms # Rooms0
    /\ \E p \in Procs :
        /\ pc[p] = "done" /\ result[p].kind = "ok"
        /\ Len(guests) = loc[p].ng
        /\ Len(bookings) = loc[p].nb + 1

-----------------------------------------------------------------------------
(* Claims on validation *)

\* an optional text that is absent or blank after trimming
Blank(x) == x = {} \/ Strip(The(x)) = << >>

\* the rules of search_hotels in their stated order, each as
\* <<violated, message>>
SearchRules(f, td) ==
    << <<(f.lat = {}) # (f.lng = {}), "Both lat and lng must be provided together.">>,
       <<f.radius_km <= 0, "radius_km must be greater than 0.">>,
       <<Blank(f.query) /\ Blank(f.property_name) /\ Blank(f.city) /\ Blank(f.country)
           /\ Blank(f.room_name) /\ ~(f.lat # {} /\ f.lng # {}),
         "At least one search criterion is required: query, property_name, city, country, room_name, or lat/lng.">>,
       <<Truthy(f.check_in) # Truthy(f.check_out),
         "Both check_in and check_out must be provided together.">>,
       <<Truthy(f.check_in) /\ Truthy(f.check_out)
           /\ validate_dates(f.check_in, f.check_out, td) # None,
         validate_dates(f.check_in, f.check_out, td)>>,
       <<f.guests # {} /\ The(f.guests) < 1, "Guest count must be at least 1.">>,
       <<f.guests # {} /\ The(f.guests) > 20, "Maximum 20 guests per booking.">>,
       <<f.budget_per_night_max # {} /\ The(f.budget_per_night_max) <= 0,
         "budget_per_night_max must be greater than 0.">>,
       <<f.budget_total_max # {} /\ The(f.budget_total_max) <= 0,
         "budget_total_max must be greater than 0.">>,
       <<f.budget_total_max # {} /\ ~(Truthy(f.check_in) /\ Truthy(f.check_out)),
         "budget_total_max requires both check_in and check_out dates.">> >>

Violated(rules) == {k \in 1..Len(rules) : rules[k][1]}

\* C8: search_hotels returns an error exactly when a validation rule is
\* violated, and the error is the one of the first violated rule in the order
\* lat/lng pairing, radius, search criterion, date pairing, date validation,
\* guest count, budget per night, budget total, budget total without dates
C8_ValidationOrder ==
    [][(out' # out /\ req'.tool = "search_hotels")
       => LET rules == SearchRules(req'.a, today)
          IN  /\ (out'.kind = "error") <=> (Violated(rules) # {})
              /\ Violated(rules) # {}
                   => out'.error = rules[SetMin(Violated(rules))][2]]_vars

\* a search with dates in the past and too many guests gets the date error
C8_Witness ==
    /\ req.tool = "search_hotels"
    /\ req.a.guests # {} /\ The(req.a.guests) > 20
    /\ req.a.budget_total_max # {} /\ The(req.a.budget_total_max) <= 0
    /\ out.kind = "error"
    /\ out.error = "Check-in date cannot be in the past."

\* C9: a search_hotels call that returns a validation error has read no
\* relation and written no audit entry: the data store is as it was
C9_NoPartialExecution ==
    [][(out' # out /\ req'.tool = "search_hotels" /\ out'.kind = "error")
       => (out'.reads = << >> /\ store' = store)]_vars

\* the last rule of the order rejects the search
C9_Witness ==
    /\ req.tool = "search_hotels"
    /\ out.kind = "error"
    /\ out.error = "budget_total_max requires both check_in and check_out dates."
    /\ out.reads = << >>
    /\ audit = << >>

\* the rules of validate_dates in their stated order, as <<holds, message>>
DateRules(ci, co, td) ==
    << <<ci >= td, "Check-in date cannot be in the past.">>,
       <<co > ci, "Check-out must be after check-in.">>,
       <<co - ci <= 30, "Maximum stay is 30 nights.">>,
       <<ci <= td + 365, "Cannot book more than 1 year in advance.">> >>

Broken(rules) == {k \in 1..Len(rules) : ~rules[k][1]}

\* C10: on parseable dates validate_dates returns no error exactly when
\* check_in >= today, check_out > check_in, the stay is at most 30 nights and
\* check_in <= today + 365; otherwise it returns the message of the first of
\* these rules that is broken
C10_ValidateDates ==
    [][(/\ out' # out /\ req'.tool = "validate_dates"
        /\ Parses(req'.check_in) /\ Parses(req'.check_out))
       => LET rules == DateRules(req'.check_in.d, req'.check_out.d, today)
          IN  /\ (out'.error = None) <=> (Broken(rules) = {})
              /\ Broken(rules) # {} => out'.error = rules[SetMin(Broken(rules))][2]
              /\ (\/ req'.check_out.d <= req'.check_in.d
                  \/ req'.check_out.d - req'.check_in.d > 30
                  \/ req'.check_in.d > today + 365) => out'.error # None]_vars

\* a stay of more than 30 nights that also starts more than a year ahead is
\* rejected for its length
C10_Witness ==
    /\ req.tool = "validate_dates"
    /\ Parses(req.check_in) /\ Parses(req.check_out)
    /\ req.check_out.d - req.check_in.d > 30
    /\ req.check_in.d > today + 365
    /\ out.error = "Maximum stay is 30 nights."

-----------------------------------------------------------------------------
(* Claims on the pricing engine *)

NightsOf(check_in, check_out) ==
    {d \in 0..(MaxToday + StayDays + 2) : FromIso(check_in) <= d /\ d < FromIso(check_out)}

\* the price of night d: the override dated d if there is one, else the rate
NightPrice(rows, d, rate) ==
    IF \E i \in 1..Len(rows) : rows[i].date = d
    THEN (CHOOSE o \in {rows[i] : i \in 1..Len(rows)} : o.date = d).price
    ELSE rate

RECURSIVE NightsSum(_, _, _)
NightsSum(S, rows, rate) ==
    IF S = {} THEN 0
    ELSE LET d == CHOOSE x \in S : TRUE
         IN  NightPrice(rows, d, rate) + NightsSum(S \ {d}, rows, rate)

WithFees(subtotal) ==
    subtotal + RoundPct(subtotal, TAX_RATE_PCT) + RoundPct(subtotal, SERVICE_FEE_RATE_PCT)

InStayOnly(rows, check_in, check_out) ==
    SelectSeq(rows, LAMBDA o : o.date \in NightsOf(check_in, check_out))

\* C11: the stay subtotal is the sum, over exactly the nights d with
\* check_in <= d < check_out, of the override price of d if an override is dated
\* d and of the guest-count nightly rate otherwise; overrides dated on check_out
\* or outside the stay never change the total; a stay of zero nights has total 0
\* and no error.  Checked on _calculate_room_total_price (whose total is the
\* subtotal plus its tax and fee) and on the subtotal calculate_price returns.
C11_StaySubtotal ==
    [][/\ (req'.tool = "_calculate_room_total_price" /\ out' # out) =>
            LET a == req'.a
                rate == _nightly_rate_for_guests(a.room, a.guests, a.guest_tiers)
                nights == NightsOf(a.check_in, a.check_out)
            IN  /\ out'.kind = "value"
                /\ out'.total = WithFees(NightsSum(nights, a.date_overrides, rate))
                /\ out'.total = _calculate_room_total_price(a.room, a.guests, a.check_in,
                                    a.check_out, a.guest_tiers,
                                    InStayOnly(a.date_overrides, a.check_in, a.check_out))
                /\ (a.check_in = a.check_out => out'.total = 0)
       /\ (req'.tool = "calculate_price" /\ out' # out /\ out'.kind = "ok") =>
            LET a == req'.a
                nights == NightsOf(a.check_in, a.check_out)
            IN  /\ out'.nights = Cardinality(nights)
                /\ out'.subtotal = NightsSum(nights, overrides[a.room_id], out'.nightly_rate)
                /\ out'.total = WithFees(out'.subtotal)
      ]_vars

\* a two-night stay priced with one override inside it and one dated on check_out
\* or later
C11_Witness ==
    /\ req.tool = "_calculate_room_total_price"
    /\ out.kind = "value"
    /\ FromIso(req.a.check_out) = FromIso(req.a.check_in) + 2
    /\ \E i, j \in 1..Len(req.a.date_overrides) :
        /\ req.a.date_overrides[i].date \in NightsOf(req.a.check_in, req.a.check_out)
        /\ req.a.date_overrides[j].date >= FromIso(req.a.check_out)
    /\ out.total = WithFees(7001 + req.a.room.price_per_night)

\* the tiers of a list that contain the guest count g
Containing(guest_tiers, g) ==
    {i \in 1..Len(guest_tiers) :
        guest_tiers[i].min_guests <= g /\ g <= guest_tiers[i].max_guests}

\* C12: the nightly rate for a guest count g is the price of the first tier of the
\* list with min_guests <= g <= max_guests, and the room's base price_per_night
\* when no tier contains g; for an unspecified guest count it is the base price
\* whatever the tiers.  Checked on _nightly_rate_for_guests and on the
\* nightly_rate calculate_price returns.
C12_NightlyRate ==
    [][/\ (req'.tool = "_nightly_rate_for_guests" /\ out' # out) =>
            LET a == req'.a
            IN  /\ a.guests = {} => out'.rate = a.room.price_per_night
                /\ \A g \in a.guests :
                    /\ Containing(a.guest_tiers, g) = {} =>
                            out'.rate = a.room.price_per_night
                    /\ \A i \in Containing(a.guest_tiers, g) :
                            (\A j \in 1..(i - 1) : j \notin Containing(a.guest_tiers, g)) =>
                                out'.rate = a.guest_tiers[i].price_per_night
       /\ (req'.tool = "calculate_price" /\ out' # out /\ out'.kind = "ok") =>
            LET a == req'.a
                rows == tiers[a.room_id]
            IN  /\ Containing(rows, a.guests) = {} =>
                        out'.nightly_rate = rooms[a.room_id].price_per_night
                /\ \A i \in Containing(rows, a.guests) :
                        (\A j \in 1..(i - 1) : j \notin Containing(rows, a.guests)) =>
                            out'.nightly_rate = rows[i].price_per_night
      ]_vars

\* a guest count contained in two tiers of different prices got the first one's
C12_Witness ==
    /\ req.tool = "_nightly_rate_for_guests"
    /\ out.kind = "value"
    /\ \E g \in req.a.guests : \E i, j \in Containing(req.a.guest_tiers, g) :
        /\ i < j
        /\ req.a.guest_tiers[i].price_per_night # req.a.guest_tiers[j].price_per_night
        /\ out.rate = req.a.guest_tiers[i].price_per_night
        /\ out.rate # req.a.room.price_per_night

\* round(cents * 116 / 100): nights * base_price * 1.16 rounded to the cent
RoundedWhole(subtotal) == RoundRatio(subtotal * (100 + TAX_RATE_PCT + SERVICE_FEE_RATE_PCT), 100)

Distance(a, b) == IF a >= b THEN a - b ELSE b - a

PlainStay == /\ req.tool = "_calculate_room_total_price"
             /\ out.kind = "value"
             /\ req.a.guest_tiers = << >>
             /\ req.a.date_overrides = << >>
             /\ FromIso(req.a.check_out) >= FromIso(req.a.check_in)

PlainSubtotal ==
    (FromIso(req.a.check_out) - FromIso(req.a.check_in)) * req.a.room.price_per_night

\* C13 as stated: for a room with no guest tiers and no date overrides, for every
\* base price in whole cents, guest count and number of nights, the stay total
\* round(subtotal + round(subtotal*0.12, 2) + round(subtotal*0.04, 2), 2) equals
\* round(nights * base_price * 1.16, 2).
C13_Original ==
    PlainStay => out.total = RoundedWhole(PlainSubtotal)

\* C13 amended: for such a room the stay total differs from
\* round(nights * base_price * 1.16, 2) by at most one cent, and equals it
\* whenever nights * base_price is a multiple of 25 cents (so for every price in
\* whole currency units).
C13_Amended ==
    PlainStay =>
        /\ Distance(out.total, RoundedWhole(PlainSubtotal)) <= 1
        /\ PlainSubtotal % 25 = 0 => out.total = RoundedWhole(PlainSubtotal)

\* a plain stay whose subtotal is a positive multiple of 25 cents, and one whose
\* total is a cent away from the rounded 1.16 multiple
C13_Witness ==
    /\ PlainStay
    /\ PlainSubtotal > 0
    /\ \/ PlainSubtotal % 25 = 0 /\ PlainSubtotal < 10000
       \/ Distance(out.total, RoundedWhole(PlainSubtotal)) = 1

\* a tier covers more guests than another when its range starts or ends higher
CoversMore(t2, t1) == t2.min_guests > t1.min_guests \/ t2.max_guests > t1.max_guests

\* every tier covering more guests has a price >= every tier covering fewer
OrderedTiers(guest_tiers) ==
    \A i, j \in 1..Len(guest_tiers) :
        CoversMore(guest_tiers[j], guest_tiers[i]) =>
            guest_tiers[j].price_per_night >= guest_tiers[i].price_per_night

Covered(guest_tiers, g) == Containing(guest_tiers, g) # {}

\* the base price lies between the tiers below and above every uncovered count
BaseFits(room, guest_tiers) ==
    \A g \in 1..MAX_GUESTS : \A i \in 1..Len(guest_tiers) :
        ~Covered(guest_tiers, g) =>
            /\ guest_tiers[i].max_guests < g =>
                    guest_tiers[i].price_per_night <= room.price_per_night
            /\ guest_tiers[i].min_guests > g =>
                    guest_tiers[i].price_per_night >= room.price_per_night

PairPriced == req.tool = "stay_totals" /\ out.kind = "value"

\* C14 as stated: for a fixed room, dates and overrides and a tier list in which
\* every tier covering more guests has a price >= every tier covering fewer
\* guests, g1 <= g2 implies total(g1) <= total(g2) for all guest counts 1..20,
\* including counts that fall in no tier.
C14_Original ==
    (PairPriced /\ OrderedTiers(req.a.guest_tiers)) => out.low <= out.high

\* C14 amended: with such a tier list, g1 <= g2 implies total(g1) <= total(g2)
\* for guest counts that each fall in some tier; it holds for all guest counts
\* 1..20 only if, in addition, the room's base price is >= the price of every
\* tier lying below an uncovered count and <= the price of every tier lying
\* above one (an uncovered count is charged the base price).
C14_Amended ==
    (PairPriced /\ OrderedTiers(req.a.guest_tiers)) =>
        /\ (Covered(req.a.guest_tiers, req.g1) /\ Covered(req.a.guest_tiers, req.g2)) =>
                out.low <= out.high
        /\ BaseFits(req.a.room, req.a.guest_tiers) => out.low <= out.high

\* an ordered tier list with a fitting base price, priced strictly higher for a
\* count in a tier than for a smaller count, and for a count in no tier
C14_Witness ==
    /\ PairPriced
    /\ OrderedTiers(req.a.guest_tiers)
    /\ BaseFits(req.a.room, req.a.guest_tiers)
    /\ Len(req.a.guest_tiers) >= 2
    /\ ~Covered(req.a.guest_tiers, req.g2)
    /\ Covered(req.a.guest_tiers, req.g1)
    /\ out.low < out.high

-----------------------------------------------------------------------------
(* Claims on search_hotels *)

Searched == req.tool = "search_hotels" /\ out.kind = "ok"

\* the ids of the rooms listed in the matching_rooms of hotel k of the result
ListedIn(k) ==
    {out.hotels[k].matching_rooms[i].id : i \in 1..Len(out.hotels[k].matching_rooms)}

Listed == UNION {ListedIn(k) : k \in 1..Len(out.hotels)}

\* the nine conditions of C15 for room rid under the filters f
Eligible(f, rid) ==
    LET room == rooms[rid]
        prop == properties[room.property_id]
        q == Normalized(f.query)
        stay == [check_in |-> FromIso(f.check_in), check_out |-> FromIso(f.check_out)]
    IN  /\ room.property_id \in SurvivingProperties(f, properties)
        /\ room.status = "active"
        /\ Normalized(f.room_name) # << >> =>
                \/ Contains(Lower(room.name), Normalized(f.room_name))
                \/ Contains(Lower(room.type), Normalized(f.room_name))
        /\ \A g \in f.guests : room.max_guests >= g
        /\ TRUE \in f.pet_friendly => _room_is_pet_friendly(room.amenities)
        /\ \A b \in f.budget_per_night_max : room.price_per_night <= b
        /\ BothDates(f) =>
                ~\E i \in 1..Len(bookings) :
                    /\ bookings[i].room_id = rid
                    /\ bookings[i].status # "cancelled"
                    /\ Overlap(bookings[i], stay)
        /\ \A b \in f.budget_total_max :
                _calculate_room_total_price(room, f.guests, f.check_in, f.check_out,
                                            tiers[rid], overrides[rid]) <= b
        /\ q # << >> =>
                \E text \in {room.name, room.type, room.description, prop.property_name,
                             prop.description, prop.city, prop.country}
                            \cup Elements(room.amenities) :
                    Contains(Lower(text), q)

\* C15: a room appears in some hotel's matching_rooms if and only if its property
\* survived the property stage, its status is active, it matches the room_name
\* filter (name or type), its max_guests is >= guests, it has a pet-friendly
\* amenity if pet_friendly is true, its price is <= budget_per_night_max, it has
\* no overlapping non-cancelled booking if both dates are given, its stay total is
\* <= budget_total_max, and the query is a substring of one of its fields or of
\* its property's; it is then listed once, under its own property.
C15_MatchingRooms ==
    Searched =>
        /\ \A rid \in DOMAIN rooms : rid \in Listed <=> Eligible(req.a, rid)
        /\ \A k \in 1..Len(out.hotels) :
            /\ \A rid \in ListedIn(k) : rooms[rid].property_id = out.hotels[k].property_id
            /\ Cardinality(ListedIn(k)) = Len(out.hotels[k].matching_rooms)
            /\ \A j \in 1..Len(out.hotels) :
                    j # k => out.hotels[j].property_id # out.hotels[k].property_id

\* a dated search with a total budget that lists a room while an active room of
\* a surviving property is left out for an overlapping live booking
C15_Witness ==
    /\ Searched
    /\ Listed # {}
    /\ BothDates(req.a)
    /\ req.a.budget_total_max # {}
    /\ "r1" \notin Listed
    /\ \E i \in 1..Len(bookings) :
          /\ bookings[i].room_id = "r1"
          /\ bookings[i].status # "cancelled"
          /\ FromIso(req.a.check_in) < bookings[i].check_out

\* the property of hotel k of the result, as stored
HotelProperty(k) == properties[out.hotels[k].property_id]

FilterText(t) == Lower(Strip(The(t)))

Given(t) == t # {} /\ FilterText(t) # << >>

\* C16: a hotel appears in the result only if its property matches the
\* property_name, city and country filters and, when a lat/lng pair is given, has
\* both coordinates and lies within radius_km; a property missing lat or lng
\* never appears in a coordinate search; distance_km is null exactly when no
\* coordinate filter was used.
C16_PropertyStage ==
    Searched =>
        \A k \in 1..Len(out.hotels) :
            /\ Given(req.a.property_name) =>
                    Contains(Lower(HotelProperty(k).property_name),
                             FilterText(req.a.property_name))
            /\ Given(req.a.city) =>
                    Contains(Lower(HotelProperty(k).city), FilterText(req.a.city))
            /\ Given(req.a.country) =>
                    Contains(Lower(HotelProperty(k).country), FilterText(req.a.country))
            /\ (req.a.lat # {} /\ req.a.lng # {}) =>
                    /\ HotelProperty(k).lat # {}
                    /\ HotelProperty(k).lng # {}
                    /\ \A la \in HotelProperty(k).lat, ln \in HotelProperty(k).lng :
                        HaversineMm[<<The(req.a.lat), The(req.a.lng), la, ln>>]
                            <= req.a.radius_km * 1000000
            /\ out.hotels[k].distance_km = {} <=> (req.a.lat = {} \/ req.a.lng = {})

\* a coordinate search that lists a hotel with its distance and leaves out both a
\* property beyond the radius and a property without coordinates, each with an
\* active room
C16_Witness ==
    /\ Searched
    /\ req.a.lat # {} /\ req.a.lng # {}
    /\ req.a.city = {} /\ req.a.country = {} /\ req.a.property_name = {} /\ req.a.query = {}
    /\ Len(out.hotels) = 1
    /\ out.hotels[1].distance_km # {}
    /\ rooms["r4"].status = "active"
    /\ properties["p3"].lat = {}
    /\ \E pid \in DOMAIN properties :
        /\ pid # out.hotels[1].property_id
        /\ properties[pid].lat # {}
        /\ \E rid \in DOMAIN rooms : rooms[rid].property_id = pid /\ rooms[rid].status = "active"

NameKey(k) == Lower(out.hotels[k].property_name)

\* C17: hotels are ordered by distance_km ascending, ties broken by lower-cased
\* property name, when a coordinate filter was used, and by lower-cased property
\* name alone otherwise; within each hotel matching_rooms is ordered by
\* price_per_night ascending.
C17_Order ==
    Searched =>
        /\ \A k, l \in 1..Len(out.hotels) :
            k < l =>
                IF req.a.lat # {} /\ req.a.lng # {}
                THEN \A dk \in out.hotels[k].distance_km, dl \in out.hotels[l].distance_km :
                        \/ dk < dl
                        \/ dk = dl /\ ~StrLess(NameKey(l), NameKey(k))
                ELSE ~StrLess(NameKey(l), NameKey(k))
        /\ \A k \in 1..Len(out.hotels) :
            \A i, j \in 1..Len(out.hotels[k].matching_rooms) :
                i < j => out.hotels[k].matching_rooms[i].price_per_night
                            <= out.hotels[k].matching_rooms[j].price_per_night

\* a coordinate search with two hotels at one distance, put in the order of their
\* names, the first of them listing two rooms of different prices
C17_Witness ==
    /\ Searched
    /\ req.a.lat # {} /\ req.a.lng # {}
    /\ Len(out.hotels) = 2
    /\ out.hotels[1].distance_km = out.hotels[2].distance_km
    /\ StrLess(NameKey(1), NameKey(2))
    /\ \E k \in 1..2 :
        /\ Len(out.hotels[k].matching_rooms) = 2
        /\ out.hotels[k].matching_rooms[1].price_per_night
             < out.hotels[k].matching_rooms[2].price_per_night

\* the rooms of hotel k's property that pass every stage before the query stage
BeforeQuery(k) ==
    {rid \in DOMAIN rooms :
        /\ rooms[rid].property_id = out.hotels[k].property_id
        /\ Eligible([req.a EXCEPT !.query = {}], rid)}

PetFriendlyAmong(S) == \E rid \in S : _room_is_pet_friendly(rooms[rid].amenities)

\* C18 as stated: for every hotel of a search_hotels result, min_price_per_night
\* is the minimum price_per_night over the rooms of that property that survived
\* the room, availability and total-budget stages, the set before the free-text
\* query stage narrows it, and pet_friendly_option is true iff some room of that
\* set is pet-friendly.
C18_Original ==
    Searched =>
        \A k \in 1..Len(out.hotels) :
            /\ out.hotels[k].min_price_per_night
                 = SetMin({rooms[rid].price_per_night : rid \in BeforeQuery(k)})
            /\ out.hotels[k].pet_friendly_option <=> PetFriendlyAmong(BeforeQuery(k))

\* C18 amended: for every hotel of a search_hotels result, min_price_per_night is
\* the minimum price_per_night over the rooms listed in its matching_rooms, the
\* rooms of that property that survived every stage including the free-text
\* query stage, and pet_friendly_option is true iff one of those rooms is
\* pet-friendly; without a query that set is the one that survived stages 3-5.
C18_Amended ==
    Searched =>
        \A k \in 1..Len(out.hotels) :
            /\ out.hotels[k].min_price_per_night
                 = SetMin({rooms[rid].price_per_night : rid \in ListedIn(k)})
            /\ out.hotels[k].pet_friendly_option <=> PetFriendlyAmong(ListedIn(k))
            /\ out.hotels[k].available_rooms_count = Cardinality(ListedIn(k))
            /\ req.a.query = {} => ListedIn(k) = BeforeQuery(k)

\* a query that narrowed a hotel to its dearer room, leaving out a cheaper,
\* pet-friendly room that had survived every stage before it
C18_Witness ==
    /\ Searched
    /\ req.a.query # {}
    /\ \E k \in 1..Len(out.hotels) :
        /\ ListedIn(k) # BeforeQuery(k)
        /\ ~out.hotels[k].pet_friendly_option
        /\ PetFriendlyAmong(BeforeQuery(k))
        /\ \E rid \in BeforeQuery(k) :
              rooms[rid].price_per_night < out.hotels[k].min_price_per_night

-----------------------------------------------------------------------------
(* Claims on the audit log *)

\* the audit entry search_hotels writes for hotel k of its result
HotelEntry(rq, rs, k) ==
    [property_id |-> rs.hotels[k].property_id, conversation_id |-> rq.a.session_id,
     tool_name |-> "search_hotels", source |-> rq.a.source, status |-> "success",
     request_payload |-> rs.applied,
     response_payload |-> [count_hotels |-> rs.count_hotels, count_rooms |-> rs.count_rooms]]

\* the hotels whose audit insert succeeded, and how many of them come up to k
Inserted(rq) == {k \in DOMAIN rq.oks : rq.oks[k]}

InsertedUpTo(rq, k) == Cardinality({j \in Inserted(rq) : j <= k})

\* C19: the only writes of search_hotels are audit-log inserts: one per hotel of
\* the returned result, in the order of the hotels, each tagged with the
\* invoking source and carrying the applied filters and the result counts (an
\* entry is there for every hotel whose insert succeeded), and none when the
\* result has no hotel or is a validation error; search_hotels does not read the
\* audit log; no step of any search or booking operation updates or deletes an
\* audit entry.
C19_AuditWrites ==
    [][/\ Len(audit') >= Len(audit)
       /\ SubSeq(audit', 1, Len(audit)) = audit
       /\ (req'.tool = "search_hotels" /\ out' # out) =>
            /\ <<today, properties, rooms, tiers, overrides, bookings, guests, sessions>>'
                 = <<today, properties, rooms, tiers, overrides, bookings, guests, sessions>>
            /\ DOMAIN req'.oks = 1..Len(out'.hotels)
            /\ Len(audit') = Len(audit) + Cardinality(Inserted(req'))
            /\ \A k \in Inserted(req') :
                    audit'[Len(audit) + InsertedUpTo(req', k)] = HotelEntry(req', out', k)
            /\ out'.kind = "ok" => out'.applied = applied_filters(req'.a)
            /\ out'.count_hotels = Len(out'.hotels)
            /\ (out'.kind = "error" \/ out'.hotels = << >>) => audit' = audit
            /\ \A i \in 1..Len(out'.reads) : out'.reads[i] # "audit_log"]_vars

\* a search from the chatgpt channel that found two hotels, after a booking had
\* left its own entries: the log ends with one entry per hotel
C19_Witness ==
    /\ req.tool = "search_hotels"
    /\ out.kind = "ok"
    /\ req.a.source = "chatgpt"
    /\ Len(out.hotels) = 2
    /\ Inserted(req) = {1, 2}
    /\ Len(audit) > 2
    /\ audit[Len(audit)] = HotelEntry(req, out, 2)
    /\ audit[Len(audit) - 1] = HotelEntry(req, out, 1)
    /\ audit[Len(audit) - 2].tool_name = "create_booking"

NonAudit == <<today, properties, rooms, tiers, overrides, bookings, guests, sessions>>

\* what each stand-alone tool returns on the store, whatever its audit insert does
ToolReturns(rq, rs) ==
    CASE rq.tool = "check_availability" ->
            LET avail == check_availability(bookings, rq.a.room_id, rq.a.check_in,
                                            rq.a.check_out, today)
            IN  /\ rs.kind = (IF avail.error = None THEN "ok" ELSE "error")
                /\ rs.error = avail.error
                /\ rs.available = avail.available
                /\ rs.conflicts = avail.conflicts
      [] rq.tool = "calculate_price" ->
            \E single_raises \in BOOLEAN :
                rs = calculate_price(rooms, tiers, overrides, rq.a.room_id, rq.a.check_in,
                                     rq.a.check_out, rq.a.guests, today, single_raises)
      [] rq.tool = "search_hotels" ->
            rs = search_hotels(rq.a, properties, rooms, tiers, overrides, bookings, today)
      [] rq.tool = "search_rooms" ->
            rs = search_rooms(rq.a.property_id, rq.a.found, rq.a.check_in, rq.a.check_out,
                              rq.a.guests, rooms, bookings)
      [] OTHER -> TRUE

\* what a step of tool_create_booking does to its worker and to the bookings,
\* whatever its audit insert does
StepReturns(p) ==
    LET a == args[p]
    IN  CASE pc[p] = "avail" ->
                /\ bookings' = bookings
                /\ IF check_availability(bookings, a.room_id, a.check_in, a.check_out,
                                         today).available
                   THEN pc'[p] = "price" /\ result'[p] = result[p]
                   ELSE pc'[p] = "done" /\ result'[p] = Unavailable
          [] pc[p] = "price" ->
                /\ bookings' = bookings
                /\ pc'[p] = "guest"
                /\ result'[p] = result[p]
                /\ loc'[p].total = _calculate_room_total_price(rooms[a.room_id], {a.guests},
                                       a.check_in, a.check_out, tiers[a.room_id],
                                       overrides[a.room_id])
          [] pc[p] = "insert" ->
                /\ Len(bookings') = Len(bookings) + 1
                /\ SubSeq(bookings', 1, Len(bookings)) = bookings
                /\ bookings'[Len(bookings')].total_price = loc[p].total
                /\ pc'[p] = "done"
                /\ result'[p].kind = "ok"
                /\ result'[p].booking_id = Len(bookings')
                /\ result'[p].total = loc[p].total
          [] OTHER -> TRUE

\* C20: a failing audit-log insert never changes the outcome of the primary
\* operation: when only audit inserts fail, search_hotels, search_rooms,
\* check_availability and calculate_price return what they compute from the
\* store and leave every table but the audit log as it was, whether or not the
\* insert succeeded; every step of tool_create_booking moves on, and ends, as it
\* does when its insert succeeds; no call ends with an exception.
C20_AuditFailureIsSilent ==
    [][/\ out' # out =>
            /\ ToolReturns(req', out')
            /\ NonAudit' = NonAudit
            /\ (out'.kind = "fault" => req'.a.room_id \notin DOMAIN rooms)
       /\ \A p \in Procs :
            /\ pc'[p] # pc[p] => StepReturns(p)
            /\ result'[p].kind # "fault"]_vars

\* a booking made and, after it, a search that found two hotels, with every audit
\* insert of both failing: the log is still empty
C20_Witness ==
    /\ req.tool = "search_hotels"
    /\ out.kind = "ok"
    /\ Len(out.hotels) = 2
    /\ Inserted(req) = {}
    /\ Len(bookings) = 1
    /\ bookings[1].source = "chatgpt"
    /\ audit = << >>

(***************************************************************************)
(* get_or_create_guest called in series (crud/booking.py 115-137)          *)
(***************************************************************************)

MaxLookups == 3

GuestKeys ==
    [property_id : {"p1", "p2"}, name : {"ann", "Ann"}, email : {None, "a@x", "b@x"}]

\* the calls made so far: per key the ids returned and the rows inserted
NoLookups ==
    [kind |-> "guest", n |-> 0, id |-> 0, inserted |-> FALSE,
     ids |-> [k \in GuestKeys |-> {}], made |-> [k \in GuestKeys |-> 0]]

Lookups == IF out.kind = "guest" THEN out ELSE NoLookups

\* crud/booking.py 115-137: select id where property_id, name (and email when
\* one is given), limit(1) without an order; insert when nothing matched
GetOrCreateGuestCall(K) ==
    /\ Lookups.n < MaxLookups
    /\ \E k \in K :
       \E existing \in {GuestMatches(guests, k.property_id, k.name, k.email)} :
       \E gid \in (IF existing = {} THEN {Len(guests) + 1} ELSE existing) :
          /\ guests' = IF existing = {}
                       THEN Append(guests, [property_id |-> k.property_id,
                                            name |-> k.name, email |-> k.email])
                       ELSE guests
          /\ req' = [tool |-> "get_or_create_guest", a |-> k]
          /\ out' = [kind |-> "guest", n |-> Lookups.n + 1, id |-> gid,
                     inserted |-> (existing = {}),
                     ids |-> [Lookups.ids EXCEPT ![k] = @ \cup {gid}],
                     made |-> [Lookups.made EXCEPT ![k] = @ + (IF existing = {} THEN 1 ELSE 0)]]
    /\ UNCHANGED <<chat, today, properties, rooms, tiers, overrides, bookings, sessions,
                   audit, procs>>

NextGuests == GetOrCreateGuestCall(GuestKeys)

SpecGuests == Init /\ [][NextGuests]_vars

(***************************************************************************)
(* C21                                                                     *)
(***************************************************************************)

\* C21: in a series of get_or_create_guest calls, all calls with the same
\* (property_id, name, email) return the same guest id
C21_SameGuest ==
    out.kind = "guest" => \A k \in GuestKeys : Cardinality(out.ids[k]) <= 1

\* C21 (second part): the calls with one key together insert at most one row
C21_AtMostOneInsert ==
    out.kind = "guest" => \A k \in GuestKeys : out.made[k] <= 1

\* C21 (third part): a call inserts only when no guest of the property with that
\* exact name, and that email when one is given, existed
C21_InsertsOnlyWhenAbsent ==
    [][(req'.tool = "get_or_create_guest" /\ out'.kind = "guest" /\ out'.inserted)
        => ~ \E i \in 1..Len(guests) :
               /\ guests[i].property_id = req'.a.property_id
               /\ guests[i].name = req'.a.name
               /\ (req'.a.email # None => guests[i].email = req'.a.email)]_vars

(***************************************************************************)
(* The MCP header guard (src/app/mcp/auth.py)                              *)
(***************************************************************************)

MaxHeaders == 2

MCP_AUTH_HEADER ==
    <<"x", "-", "m", "o", "n", "o", "b", "o", "o", "k", "-", "m", "c", "p", "-", "k", "e", "y">>

\* a character outside ASCII, as latin-1 decodes a byte above 0x7f
NonAscii == {"é"}

IsAscii(s) == \A i \in 1..Len(s) : s[i] \notin NonAscii

\* __init__, line 16: (shared_secret or "").strip()
StoredSecret(shared_secret) ==
    IF shared_secret = {} THEN << >> ELSE Strip(CHOOSE s \in shared_secret : TRUE)

\* lines 28-32: the dict of lower-cased names keeps the last value of a name;
\* headers.get(name, "")
HeaderGet(headers, name) ==
    LET at == {i \in 1..Len(headers) : Lower(headers[i].key) = name}
    IN  IF at = {} THEN << >>
        ELSE headers[CHOOSE i \in at : \A j \in at : j <= i].value

\* secrets.compare_digest on str: TypeError unless both are ASCII
compare_digest_raises(a, b) == ~ (IsAscii(a) /\ IsAscii(b))

compare_digest(a, b) == a = b

Forwarded == [kind |-> "forwarded", status |-> 200, detail |-> None]
Unauthorized == [kind |-> "response", status |-> 401, detail |-> "Unauthorized MCP request."]
Raised == [kind |-> "raised", status |-> 500, detail |-> "TypeError"]

\* MCPHeaderAuthApp.__call__, lines 18-43
MCPHeaderAuthAppCall(shared_secret, scope) ==
    IF scope.type # "http" THEN Forwarded
    ELSE IF StoredSecret(shared_secret) = << >> THEN Forwarded
    ELSE IF compare_digest_raises(HeaderGet(scope.headers, MCP_AUTH_HEADER),
                                  StoredSecret(shared_secret)) THEN Raised
    ELSE IF ~ compare_digest(HeaderGet(scope.headers, MCP_AUTH_HEADER),
                             StoredSecret(shared_secret)) THEN Unauthorized
    ELSE Forwarded

SecretTexts == {<< >>, <<"s">>, <<"s", "k">>, <<" ", "s">>, <<"é">>}
\* str | None, None being the empty set
Secrets == {{}} \cup {{s} : s \in SecretTexts}

HeaderNames ==
    {MCP_AUTH_HEADER,
     <<"X", "-", "M", "o", "n", "o", "b", "o", "o", "k", "-", "M", "c", "p", "-", "K", "e", "y">>,
     <<"a", "c", "c", "e", "p", "t">>}

HeaderLists ==
    UNION {[1..n -> [key : HeaderNames, value : SecretTexts]] : n \in 0..MaxHeaders}

Scopes == [type : {"http", "websocket", "lifespan"}, headers : HeaderLists]

\* one request arriving at an app constructed with the secret
MCPRequest(S, Q) ==
    /\ \E shared_secret \in S, scope \in Q :
          /\ req' = [tool |-> "mcp", secret |-> shared_secret, scope |-> scope]
          /\ out' = MCPHeaderAuthAppCall(shared_secret, scope)
    /\ UNCHANGED <<chat, store, today, procs>>

NextMcp == Idle /\ MCPRequest(Secrets, Scopes)

SpecMcp == Init /\ [][NextMcp]_vars

(***************************************************************************)
(* C22                                                                     *)
(***************************************************************************)

McpHttp == req.tool = "mcp" /\ req.scope.type = "http"

\* the value the request carries under the header name, "" when it has none
Carried ==
    LET hs == req.scope.headers
        at == {i \in 1..Len(hs) : Lower(hs[i].key) = MCP_AUTH_HEADER}
    IN  IF at = {} THEN << >> ELSE hs[CHOOSE i \in at : \A j \in at : j <= i].value

\* the secret in force: the configured one without surrounding blanks
InForce == IF req.secret = {} THEN << >> ELSE Strip(CHOOSE s \in req.secret : TRUE)

\* C22: with a non-empty secret an HTTP request is forwarded iff its header
\* equals the secret and every other HTTP request is answered 401
\* "Unauthorized MCP request."; with an empty or missing secret every request
\* is forwarded
C22_HeaderGuard ==
    McpHttp =>
        IF InForce = << >> THEN out.kind = "forwarded"
        ELSE /\ out.kind = "forwarded" <=> Carried = InForce
             /\ Carried # InForce =>
                   /\ out.kind = "response"
                   /\ out.status = 401
                   /\ out.detail = "Unauthorized MCP request."

\* C22 (the part that holds): the wrapped app is invoked under a secret only
\* for a request that carries it
C22_NeverForwardsWithoutSecret ==
    McpHttp /\ InForce # << >> /\ out.kind = "forwarded" => Carried = InForce

\* C22 (restricted to ASCII texts): the guard as stated, for a request and a
\* secret that secrets.compare_digest accepts
C22_AsciiHeaderGuard ==
    McpHttp /\ IsAscii(Carried) /\ IsAscii(InForce) =>
        IF InForce = << >> THEN out.kind = "forwarded"
        ELSE /\ out.kind = "forwarded" <=> Carried = InForce
             /\ Carried # InForce => out = Unauthorized

(***************************************************************************)
(* Paging through the audit log (src/app/crud/audit.py)                    *)
(***************************************************************************)

MaxEntries == 3
MaxLimit == 2
MaxStamp == 2

\* rows of audit_log as the paging query reads them; created_at is the
\* column default now() or the value the insert carries (routes/seed.py 465-477)
AuditRows ==
    [property_id : {"p1", "p2"}, source : {"mcp", "widget"}, created_at : 1..MaxStamp]

\* create_audit_entry, lines 42-44
create_audit_entry(aud, data) == Append(aud, data)

CreateAuditEntry(D) ==
    /\ Idle
    /\ Len(audit) < MaxEntries
    /\ \E data \in D : audit' = create_audit_entry(audit, data)
    /\ UNCHANGED <<chat, today, properties, rooms, tiers, overrides, bookings, guests,
                   sessions, procs, io>>

\* lines 16-26: the rows the query selects; a source or cursor that is None
\* (the empty set) adds no condition
AuditMatches(aud, property_id, source, cursor) ==
    {i \in 1..Len(aud) :
        /\ aud[i].property_id = property_id
        /\ \A s \in source : aud[i].source = s
        /\ \A c \in cursor : aud[i].created_at < c.created_at}

\* order("created_at", desc=True): the orders the database may answer in
DescOrders(aud, ids) ==
    {o \in [1..Cardinality(ids) -> ids] :
        /\ \A i, j \in DOMAIN o : i # j => o[i] # o[j]
        /\ \A i, j \in DOMAIN o : i < j => aud[o[i]].created_at >= aud[o[j]].created_at}

\* limit(n)
FirstRows(o, n) == SubSeq(o, 1, IF Len(o) < n THEN Len(o) ELSE n)

\* lines 31-37: the cursor names created_at and id of the last row kept
NextCursor(aud, rows, limit) ==
    IF Len(rows) > limit
    THEN {[created_at |-> aud[rows[limit]].created_at, id |-> rows[limit]]}
    ELSE {}

\* get_audit_log, lines 9-39: the page and the next cursor, one per order
get_audit_log(aud, property_id, source, limit, cursor) ==
    {[rows |-> FirstRows(FirstRows(o, limit + 1), limit),
      next_cursor |-> NextCursor(aud, FirstRows(o, limit + 1), limit)] :
        o \in DescOrders(aud, AuditMatches(aud, property_id, source, cursor))}

AuditQueries == [property_id : {"p1"}, source : {{}, {"mcp"}}, limit : 1..MaxLimit]

\* the first call of a series: no cursor
FirstPage(Q) ==
    /\ Idle
    /\ \E q \in Q : \E page \in get_audit_log(audit, q.property_id, q.source, q.limit, {}) :
          /\ req' = [tool |-> "get_audit_log", a |-> q, cursor |-> {}]
          /\ out' = [kind |-> "page", rows |-> page.rows, next_cursor |-> page.next_cursor,
                     seen |-> page.rows, pages |-> 1]
    /\ UNCHANGED <<chat, store, today, procs>>

\* a later call: same property, source and limit, the cursor just returned
FollowingPage ==
    /\ out.kind = "page"
    /\ out.next_cursor # {}
    /\ \E page \in get_audit_log(audit, req.a.property_id, req.a.source, req.a.limit,
                                 out.next_cursor) :
          /\ req' = [req EXCEPT !.cursor = out.next_cursor]
          /\ out' = [kind |-> "page", rows |-> page.rows, next_cursor |-> page.next_cursor,
                     seen |-> out.seen \o page.rows, pages |-> out.pages + 1]
    /\ UNCHANGED <<chat, store, today, procs>>

NextPaging ==
    \/ CreateAuditEntry(AuditRows)
    \/ FirstPage(AuditQueries)
    \/ FollowingPage

SpecPaging == Init /\ [][NextPaging]_vars

(***************************************************************************)
(* C23                                                                     *)
(***************************************************************************)

Paging == req.tool = "get_audit_log" /\ out.kind = "page"

\* the entries the series asked for
Wanted ==
    {i \in 1..Len(audit) :
        /\ audit[i].property_id = req.a.property_id
        /\ req.a.source # {} => {audit[i].source} = req.a.source}

\* C23: a series that has reached next_cursor = None has returned every
\* matching entry exactly once
C23_EveryEntryOnce ==
    Paging /\ out.next_cursor = {} =>
        \A i \in Wanted : Cardinality({k \in 1..Len(out.seen) : out.seen[k] = i}) = 1

\* C23 (parts that hold): nothing is returned twice, nothing outside the
\* filter, and the entries come in descending created_at order
C23_NoRepeatInFilterDescending ==
    Paging =>
        /\ \A k, l \in 1..Len(out.seen) : k # l => out.seen[k] # out.seen[l]
        /\ \A k \in 1..Len(out.seen) : out.seen[k] \in Wanted
        /\ \A k, l \in 1..Len(out.seen) :
              k < l => audit[out.seen[k]].created_at >= audit[out.seen[l]].created_at

\* C23 (for distinct created_at values): the series returns every matching
\* entry exactly once
C23_EveryEntryOnceNoTies ==
    Paging /\ out.next_cursor = {}
           /\ (\A i, j \in Wanted : i # j => audit[i].created_at # audit[j].created_at)
        => \A i \in Wanted : Cardinality({k \in 1..Len(out.seen) : out.seen[k] = i}) = 1

(***************************************************************************)
(* C24                                                                     *)
(***************************************************************************)

\* the places (hotel, position) of the rooms listed in the result
ListedPlaces ==
    {<<k, i>> \in (1..Len(out.hotels)) \X (1..Cardinality(DOMAIN rooms)) :
        i <= Len(out.hotels[k].matching_rooms)}

\* C24: in every non-error search_hotels result count_hotels is the number of
\* hotels, count_rooms the number of rooms listed over all hotels, every hotel
\* lists at least one room and available_rooms_count of them, no property
\* appears twice, and the message is the "Found ..." one iff count_hotels > 0 and
\* "No hotels matched the provided filters." otherwise
C24_ResultShape ==
    Searched =>
        /\ out.count_hotels = Len(out.hotels)
        /\ out.count_rooms = Cardinality(ListedPlaces)
        /\ \A k \in 1..Len(out.hotels) :
              /\ Len(out.hotels[k].matching_rooms) >= 1
              /\ out.hotels[k].available_rooms_count = Len(out.hotels[k].matching_rooms)
        /\ \A k, l \in 1..Len(out.hotels) :
              k # l => out.hotels[k].property_id # out.hotels[l].property_id
        /\ out.message = "Found" <=> out.count_hotels > 0
        /\ out.count_hotels = 0 => out.message = "No hotels matched the provided filters."

\* a result of two hotels listing three rooms between them
C24_Witness ==
    /\ Searched
    /\ out.count_hotels = 2
    /\ out.count_rooms = 3
    /\ out.message = "Found"

(***************************************************************************)
(* C25                                                                     *)
(***************************************************************************)

\* the moves of one invocation from step to step
StepOrder ==
    {<<"idle", "avail">>, <<"avail", "price">>, <<"price", "guest">>,
     <<"guest", "insert">>, <<"insert", "done">>, <<"done", "idle">>}
    \cup {<<s, "done">> : s \in {"idle", "avail", "price", "guest"}}

\* the booking rows that were there when invocation p started
RowsBefore(p) == SubSeq(bookings, 1, loc[p].nb)

\* the stay invocation p asks for is taken by a live booking of its room
Taken(p) ==
    \E i \in 1..loc[p].nb :
        /\ bookings[i].room_id = args[p].room_id
        /\ bookings[i].status # "cancelled"
        /\ bookings[i].check_in < FromIso(args[p].check_out)
        /\ bookings[i].check_out > FromIso(args[p].check_in)

\* the error of the earliest step of invocation a that fails, None when none does
EarliestError(p, a) ==
    IF validate_dates(a.check_in, a.check_out, today) # None
    THEN validate_dates(a.check_in, a.check_out, today)
    ELSE IF validate_guests(a.guests) # None THEN validate_guests(a.guests)
    ELSE IF Taken(p) THEN "Room is not available for the selected dates."
    ELSE IF a.room_id \notin DOMAIN rooms THEN "Room not found"
    ELSE None

\* invocation p has read the room free and has its price
Checked(p) ==
    /\ loc[p].available
    /\ loc[p].nights > 0
    /\ validate_dates(args[p].check_in, args[p].check_out, today) = None
    /\ validate_guests(args[p].guests) = None
    /\ ~Taken(p)

NewAudit == SubSeq(audit', Len(audit) + 1, Len(audit'))

\* C25: every run of tool_create_booking goes validation, availability read,
\* price calculation, guest get-or-create, booking insert, "create_booking"
\* audit entry; no guest row and no booking row is written before availability
\* and price have both succeeded; the error returned is that of the earliest
\* failing step
C25_StepOrder ==
    [][\A p \in Procs :
        /\ pc'[p] # pc[p] => <<pc[p], pc'[p]>> \in StepOrder
        /\ (guests' # guests \/ sessions' # sessions)
              => \E q \in Procs : pc[q] = "guest" /\ Checked(q)
        /\ bookings' # bookings
              => \E q \in Procs : pc[q] = "insert" /\ Checked(q) /\ loc[q].guest_id > 0
        /\ (\E k \in 1..Len(NewAudit) : NewAudit[k].tool_name = "create_booking")
              => bookings' # bookings
        /\ (pc'[p] = "done" /\ pc[p] # "done" /\ result'[p].kind = "error")
              => result'[p].error = EarliestError(p, args'[p])
        /\ (pc'[p] = "done" /\ pc[p] # "done" /\ result'[p].kind = "ok")
              => EarliestError(p, args'[p]) = None]_vars

\* a call that fails validation on its guest count while its room is also
\* taken for its dates, answered with the guest-count error
C25_Witness ==
    \E p \in Procs :
        /\ pc[p] = "done"
        /\ validate_dates(args[p].check_in, args[p].check_out, today) = None
        /\ Taken(p)
        /\ result[p].error = "Guest count must be at least 1."
        /\ Len(bookings) = loc[p].nb

(***************************************************************************)
(* C26                                                                     *)
(***************************************************************************)

\* C26: an invocation of tool_create_booking that failed (returned an error or
\* raised) has left the guest rows as they were when it started, and the first
\* invocation, when it failed, has left every chat session without a guest
C26_AllOrNothing ==
    \A p \in Procs :
        (pc[p] = "done" /\ result[p].kind \in {"error", "fault"})
        => /\ Len(guests) = loc[p].ng
           /\ calls = 1 => \A s \in SessionIds : sessions[s].guest_id = 0

\* C26 (the part that holds): an invocation that fails before the guest step has
\* written neither a guest row nor a session link
C26_EarlyFailureWritesNothing ==
    [][\A p \in Procs :
        (pc[p] \in {"idle", "avail", "price"} /\ pc'[p] = "done")
        => guests' = guests /\ sessions' = sessions]_vars

(***************************************************************************)
(* C27                                                                     *)
(***************************************************************************)

\* C27: after any sequence of create_new_booking and update_existing_booking
\* calls no two non-cancelled bookings of one room have overlapping
\* [check_in, check_out) intervals
C27_RestKeepsNoOverlap ==
    ~ \E i, j \in 1..Len(bookings) :
        /\ i # j
        /\ bookings[i].room_id = bookings[j].room_id
        /\ bookings[i].status # "cancelled" /\ bookings[j].status # "cancelled"
        /\ bookings[i].check_in < bookings[j].check_out
        /\ bookings[j].check_in < bookings[i].check_out

(***************************************************************************)
(* The three availability filters on one store, room set and dates         *)
(***************************************************************************)

\* live, pending and cancelled bookings of rooms r1 and r2 over the window
AvailRows ==
    {[property_id |-> "p1", room_id |-> rid, guest_name |-> "ann",
      check_in |-> st[1], check_out |-> st[2], total_price |-> 100, status |-> status] :
        rid \in {"r1", "r2"}, st \in StaysInt, status \in {"confirmed", "cancelled"}}

\* room sets of active rooms, and date pairs in either order
AvailInputs ==
    [room_ids : {{"r1"}, {"r2", "r3"}, {"r1", "r2", "r3"}},
     check_in : IsoDays(Today0..Today0 + StayDays - 1),
     check_out : IsoDays(Today0..Today0 + StayDays)]

\* the rooms each implementation keeps: the batched filter of search_hotels
\* (lines 86-106), the query of check_availability (819-829) and the tool's
\* answer, and the loop of search_rooms (248-263) run on the rooms as found
AvailabilityCalls(A) ==
    /\ Idle
    /\ \E a \in A :
        /\ req' = [tool |-> "availability", a |-> a]
        /\ out' = [kind |-> "rooms",
                   batched |-> _filter_available_rooms(bookings, a.room_ids,
                                                       a.check_in, a.check_out),
                   single |-> {rid \in a.room_ids :
                                 ConflictRows(bookings, rid, FromIso(a.check_in),
                                              FromIso(a.check_out)) = {}},
                   answered |-> {rid \in a.room_ids :
                                   check_availability(bookings, rid, a.check_in,
                                                      a.check_out, today).available},
                   looped |-> Elements(search_rooms("p1", a.room_ids, a.check_in,
                                                    a.check_out, {}, rooms,
                                                    bookings).rooms)]
    /\ UNCHANGED <<chat, today, store, procs>>

NextAvail ==
    \/ Idle /\ CreateNewBooking(AvailRows)
    \/ Idle /\ UpdateExistingBooking(CancelPayloads)
    \/ AvailabilityCalls(AvailInputs)

SpecAvail == Init /\ [][NextAvail]_vars

(***************************************************************************)
(* C28                                                                     *)
(***************************************************************************)

\* C28: on every store, room set and dates the batched _filter_available_rooms
\* keeps exactly the rooms for which the check_availability query finds no
\* conflict (which check_availability answers available when the dates are
\* valid), and the per-room loop of search_rooms keeps the same rooms
C28_FiltersAgree ==
    req.tool = "availability" =>
        /\ out.batched = out.single
        /\ out.looped = out.single
        /\ validate_dates(req.a.check_in, req.a.check_out, today) = None
              => out.answered = out.single

\* a set of three rooms and valid dates of which only r3 is kept: r1 and r2
\* each hold a live booking over the dates
C28_Witness ==
    /\ req.tool = "availability"
    /\ req.a.room_ids = {"r1", "r2", "r3"}
    /\ out.batched = {"r3"}
    /\ validate_dates(req.a.check_in, req.a.check_out, today) = None

(***************************************************************************)
(* The chat rate limiter (src/app/api/routes/chat.py)                      *)
(***************************************************************************)

RATE_LIMIT_MAX == 20
RATE_LIMIT_WINDOW == 60

MaxClock == 60
MaxOtherCalls == 1

\* the instants at which messages arrive: the start, the end of the horizon and
\* the first instant less than a window before the end
Instants == {0, MaxClock - RATE_LIMIT_WINDOW + 1, MaxClock}

\* line 54: [t for t in timestamps if now - t < RATE_LIMIT_WINDOW]
CleanOld(timestamps, t_now) ==
    LET Fresh(t) == t_now - t < RATE_LIMIT_WINDOW
    IN  SelectSeq(timestamps, Fresh)

\* a limit that lets one message more through
LimitExceededByOne(timestamps) == Len(timestamps) > RATE_LIMIT_MAX

\* line 55: len(_rate_limit_store[ip]) >= RATE_LIMIT_MAX
LimitReached(timestamps) == Len(timestamps) >= RATE_LIMIT_MAX

\* _check_rate_limit, lines 49-58: the answer and the store it leaves
_check_rate_limit(rls, ip, t_now) ==
    IF LimitReached(CleanOld(rls[ip], t_now))
    THEN [allowed |-> FALSE, store |-> [rls EXCEPT ![ip] = CleanOld(rls[ip], t_now)]]
    ELSE [allowed |-> TRUE,
          store |-> [rls EXCEPT ![ip] = Append(CleanOld(rls[ip], t_now), t_now)]]

\* the calls answered so far: per IP the times of the calls that returned True
NoMessages == [kind |-> "rate", ip |-> None, allowed |-> FALSE,
               accepted |-> [ip \in ClientIps |-> << >>],
               asked |-> [ip \in ClientIps |-> 0]]

Messages == IF out.kind = "rate" THEN out ELSE NoMessages

\* send_chat_message, lines 139-145: one message from a client IP
SendChatMessage(I) ==
    /\ \E ip \in I : \E r \in {_check_rate_limit(_rate_limit_store, ip, now)} :
        /\ ip = "ip2" => Messages.asked[ip] < MaxOtherCalls
        /\ _rate_limit_store' = r.store
        /\ req' = [tool |-> "send_chat_message", ip |-> ip, at |-> now]
        /\ out' = [kind |-> "rate", ip |-> ip, allowed |-> r.allowed,
                   accepted |-> IF r.allowed
                                THEN [Messages.accepted EXCEPT ![ip] = Append(@, now)]
                                ELSE Messages.accepted,
                   asked |-> [Messages.asked EXCEPT
                                ![ip] = IF ip = "ip2" THEN @ + 1 ELSE @]]
    /\ now' = now
    /\ UNCHANGED <<today, store, procs>>

\* time.time() moves on
ClockAdvance ==
    /\ \E t \in Instants : t > now /\ now' = t
    /\ UNCHANGED <<today, store, procs, io, _rate_limit_store>>

NextChat ==
    \/ SendChatMessage(ClientIps)
    \/ ClockAdvance

SpecChat == Init /\ [][NextChat]_vars

(***************************************************************************)
(* C29                                                                     *)
(***************************************************************************)

\* the calls of ip that returned True at a time in [w, w + RATE_LIMIT_WINDOW)
AcceptedIn(acc, ip, w) ==
    {k \in 1..Len(acc[ip]) : w <= acc[ip][k] /\ acc[ip][k] < w + RATE_LIMIT_WINDOW}

\* C29: with a non-decreasing clock, for every client IP at most
\* RATE_LIMIT_MAX calls return True within any window of RATE_LIMIT_WINDOW
\* seconds; a rejected call records no timestamp; a call for one IP changes
\* nothing for another IP, whose calls alone decide its own outcome
C29_RateLimit ==
    [][req'.tool = "send_chat_message" /\ out' # out =>
        /\ \A ip \in ClientIps, w \in Instants :
              Cardinality(AcceptedIn(out'.accepted, ip, w)) <= RATE_LIMIT_MAX
        /\ ~out'.allowed =>
              \A k \in 1..Len(_rate_limit_store'[out'.ip]) :
                  \E j \in 1..Len(_rate_limit_store[out'.ip]) :
                      /\ _rate_limit_store'[out'.ip][k] = _rate_limit_store[out'.ip][j]
                      /\ Len(_rate_limit_store'[out'.ip]) <= Len(_rate_limit_store[out'.ip])
        /\ \A other \in ClientIps \ {out'.ip} :
              _rate_limit_store'[other] = _rate_limit_store[other]
        /\ out'.allowed <=>
              Cardinality({k \in 1..Len(Messages.accepted[out'.ip]) :
                              now - Messages.accepted[out'.ip][k] < RATE_LIMIT_WINDOW})
                  < RATE_LIMIT_MAX]_vars

\* ip1 is turned away with twenty messages in its window while ip2 has had a
\* message accepted
C29_Witness ==
    /\ out.kind = "rate"
    /\ out.ip = "ip1"
    /\ ~out.allowed
    /\ Len(_rate_limit_store["ip1"]) = RATE_LIMIT_MAX
    /\ Len(out.accepted["ip2"]) = 1
    /\ now = MaxClock

(***************************************************************************)
(* Sequential invocations naming rooms of the property, of another         *)
(* property and of none                                                    *)
(***************************************************************************)

ArgsRooms ==
    [property_id : {"p1"}, room_id : {"r1", "r3", "r9"}, guest_name : {"ann"},
     guest_email : {None}, check_in : CheckIns, check_out : CheckOuts,
     guests : {2}, session_id : {None, "s1"}, source : {"mcp"},
     booking_status : {"ai_pending"}]

NextRooms ==
    \/ \E p \in Procs : Quiet /\ Begin(p, ArgsRooms)
    \/ \E p \in Procs : CheckAvailabilityStep(p, "none")
    \/ \E p \in Procs : CalculatePriceStep(p, "none")
    \/ \E p \in Procs : GuestStep(p, "none")
    \/ \E p \in Procs : CreateBookingStep(p, "none")
    \/ \E p \in Procs : Return(p)

SpecRooms == Init /\ [][NextRooms]_vars

(***************************************************************************)
(* C30                                                                     *)
(***************************************************************************)

\* C30: every booking row persisted by tool_create_booking references a room
\* that exists and belongs to the booking's property_id
C30_RoomOfProperty ==
    \A i \in 1..Len(bookings) :
        /\ bookings[i].room_id \in DOMAIN rooms
        /\ rooms[bookings[i].room_id].property_id = bookings[i].property_id

\* C30 (the part that holds): a call whose room_id is unknown persists no
\* booking and no guest
C30_UnknownRoomPersistsNothing ==
    \A p \in Procs :
        (pc[p] = "done" /\ args[p].room_id \notin DOMAIN rooms)
        => /\ result[p].kind \in {"error", "fault"}
           /\ Len(bookings) = loc[p].nb
           /\ Len(guests) = loc[p].ng

=============================================================================
